---- MODULE Spec2Model ----
(***************************************************************************)
(* Peer-management engine of wgMicro_api: HTTP handlers (ConfigHandler),   *)
(* the ConfigService, the WGRepository gateway and the `wg` utility it     *)
(* drives.  Every subprocess call is one atomic step on the interface.     *)
(*                                                                         *)
(* Text that the code joins and splits is a sequence of atoms, "," being   *)
(* an atom of its own: the string "a,b" is <<"a", ",", "b">>, the empty    *)
(* string is <<>>.  Keys, the preshared key and numeric tokens are plain   *)
(* strings.  A Go error is the chain of its messages, outermost first,     *)
(* ending with the sentinel it wraps (if any); nil is <<>>.                *)
(***************************************************************************)
EXTENDS Integers, Sequences, FiniteSets, TLC

VARIABLES peers, nextKey, nreq, workers, pc, req, loc, resp, ret, log, window,
          inputs, dump, parsed, supplied, timing

vars == <<peers, nextKey, nreq, workers, pc, req, loc, resp, ret, log, window,
          inputs, dump, parsed, supplied, timing>>

\* what no request changes: the goroutines there are, the kind of input the
\* callers send, the dump text handed to the parser on its own, and the
\* stopwatch held against the subprocess calls on their own
setup == <<workers, inputs, dump, parsed, timing>>

(* ---------------- bounds ---------------- *)
MaxKeys == 2
MaxRequests == 2
NumWorkers == 2
MaxLines == 3

AllWorkers == 1..NumWorkers

(* ---------------- key material ---------------- *)
PrivNames == <<"privA", "privB", "privC", "privD", "privE", "privF">>
PubNames == <<"pubA", "pubB", "pubC", "pubD", "pubE", "pubF">>
\* the key of the peer the interface may already carry when the service starts
SeedKey == "pubP"

\* `wg pubkey`: the public key of a private key (injective).
WgPubkey(priv) == PubNames[CHOOSE i \in 1..Len(PrivNames) : PrivNames[i] = priv]

(* ---------------- request inputs ---------------- *)
IpA == <<"10.100.0.2/32">>
IpB == <<"10.100.0.3/32">>
IpLists == {<<>>, <<IpA>>, <<IpA, IpB>>}
\* request input that is no key and no CIDR
BadKey == "not a key"
BadIp == <<"not-a-cidr">>
PskInputs == {"", "psk1"}
KeepaliveInputs == {-1, 0, 25}
Outcomes == {"ok", "fail", "timeout"}

Iface == "wg0"

(* ---------------- errors ---------------- *)
ErrWgTimeout == "wireguard command timed out"
ErrPeerNotFound == "peer not found"
NoErr == <<>>

\* errors.Is(err, target)
ErrorsIs(err, target) == \E i \in 1..Len(err) : err[i] = target

\* fmt.Errorf("<msg>: %w", err)
Wrap(msg, err) == <<msg>> \o err

(* ---------------- text helpers ---------------- *)
Comma == ","
NoneStr == <<"(none)">>

RECURSIVE Join(_)
\* strings.Join(list, ",")
Join(list) ==
    IF Len(list) = 0 THEN <<>>
    ELSE IF Len(list) = 1 THEN list[1]
    ELSE list[1] \o <<Comma>> \o Join(Tail(list))

RECURSIVE Split(_)
\* strings.Split(s, ","): always at least one piece
Split(s) ==
    IF \A i \in 1..Len(s) : s[i] # Comma THEN <<s>>
    ELSE LET p == CHOOSE i \in 1..Len(s) :
                      s[i] = Comma /\ \A j \in 1..(i - 1) : s[j] # Comma
         IN <<SubSeq(s, 1, p - 1)>> \o Split(SubSeq(s, p + 1, Len(s)))

\* strconv.Itoa on the integers the model uses
Itoa(n) == CASE n = 0 -> "0" [] n = 25 -> "25" [] n = -1 -> "-1" [] OTHER -> "?"

\* strconv.Atoi: <<value>> on success, <<>> on a parse error
Atoi(s) == CASE s = "0" -> <<0>> [] s = "25" -> <<25>> [] s = "-1" -> <<-1>> [] OTHER -> <<>>

(* ---------------- the peer record ---------------- *)
\* domain.Config
Config(pub, priv, psk, endpoint, ips, hs, rx, tx, ka) ==
    [publicKey |-> pub, privateKey |-> priv, preSharedKey |-> psk,
     endpoint |-> endpoint, allowedIps |-> ips, latestHandshake |-> hs,
     receiveBytes |-> rx, transmitBytes |-> tx, persistentKeepalive |-> ka]

\* the three settings a peer is configured with
Settings(c) == <<c.allowedIps, c.preSharedKey, c.persistentKeepalive>>

(* ---------------- the `wg` utility on the interface ---------------- *)
\* The interface holds its peers in the order they were added; a kernel
\* peer is [pub, psk, ips, ka]: psk "" when none, ips a sequence of CIDR
\* atoms, ka 0 when off.
KernelPeer(pub, psk, ips, ka) == [pub |-> pub, psk |-> psk, ips |-> ips, ka |-> ka]

KernelKeys(k) == {k[i].pub : i \in 1..Len(k)}

KernelIndex(k, pub) == CHOOSE i \in 1..Len(k) : k[i].pub = pub

\* a `wg set <iface> peer <pub> ...` command line: an optional argument is
\* <<>> when absent and <<value>> when present; stdin is the piped text
SetArgs(pub, pskFile, allowedIps, keepalive, remove, stdin) ==
    [cmd |-> "set", iface |-> Iface, peer |-> pub, presharedKey |-> pskFile,
     allowedIps |-> allowedIps, persistentKeepalive |-> keepalive,
     remove |-> remove, stdin |-> stdin]

\* the CIDR atoms of an allowed-ips argument ("" clears the list)
ArgIps(csv) ==
    IF csv = <<>> THEN <<>>
    ELSE LET pieces == Split(csv)
         IN [i \in 1..Len(pieces) |-> pieces[i][1]]

\* a peer store that adds an entry for every command that is no removal
WgSetAlwaysAppends(k, a) ==
    IF a.remove
    THEN SelectSeq(k, LAMBDA p : p.pub # a.peer)
    ELSE Append(k, KernelPeer(
                       a.peer,
                       IF a.presharedKey # <<>> THEN a.stdin ELSE "",
                       IF a.allowedIps # <<>> THEN ArgIps(a.allowedIps[1]) ELSE <<>>,
                       IF a.persistentKeepalive # <<>>
                           THEN Atoi(a.persistentKeepalive[1])[1] ELSE 0))

\* a `wg set` that adds the allowed IPs it is given to those the peer has
WgSetAddsAllowedIps(k, a) ==
    IF a.remove
    THEN SelectSeq(k, LAMBDA p : p.pub # a.peer)
    ELSE LET old == IF a.peer \in KernelKeys(k)
                    THEN k[KernelIndex(k, a.peer)]
                    ELSE KernelPeer(a.peer, "", <<>>, 0)
             given == IF a.allowedIps # <<>> THEN ArgIps(a.allowedIps[1]) ELSE <<>>
             new == KernelPeer(
                        a.peer,
                        IF a.presharedKey # <<>> THEN a.stdin ELSE old.psk,
                        old.ips \o SelectSeq(given,
                                     LAMBDA ip : \A j \in 1..Len(old.ips) : old.ips[j] # ip),
                        IF a.persistentKeepalive # <<>>
                            THEN Atoi(a.persistentKeepalive[1])[1] ELSE old.ka)
         IN IF a.peer \in KernelKeys(k)
            THEN [k EXCEPT ![KernelIndex(k, a.peer)] = new]
            ELSE Append(k, new)

\* `wg set` with exit status 0: `remove` drops the peer (a no-op when it is
\* absent); otherwise the peer is added when absent and only the attributes
\* named on the command line are changed.
WgSet(k, a) ==
    IF a.remove
    THEN SelectSeq(k, LAMBDA p : p.pub # a.peer)
    ELSE LET old == IF a.peer \in KernelKeys(k)
                    THEN k[KernelIndex(k, a.peer)]
                    ELSE KernelPeer(a.peer, "", <<>>, 0)
             new == KernelPeer(
                        a.peer,
                        IF a.presharedKey # <<>> THEN a.stdin ELSE old.psk,
                        IF a.allowedIps # <<>> THEN ArgIps(a.allowedIps[1]) ELSE old.ips,
                        IF a.persistentKeepalive # <<>>
                            THEN Atoi(a.persistentKeepalive[1])[1] ELSE old.ka)
         IN IF a.peer \in KernelKeys(k)
            THEN [k EXCEPT ![KernelIndex(k, a.peer)] = new]
            ELSE Append(k, new)

\* what an invocation does to the interface: only exit status 0 changes it
Apply(k, a, outcome) == IF outcome = "ok" THEN WgSet(k, a) ELSE k

\* one peer line of `wg show <iface> dump`, as strings.Fields sees it
DumpPeerLine(p) ==
    <<p.pub,
      IF p.psk = "" THEN "(none)" ELSE p.psk,
      "(none)",
      IF p.ips = <<>> THEN NoneStr ELSE Join([i \in 1..Len(p.ips) |-> <<p.ips[i]>>]),
      "0", "0", "0",
      IF p.ka = 0 THEN "off" ELSE Itoa(p.ka)>>

\* the interface line: private key, public key, listen port, fwmark
DumpHeaderLine == <<"srvPriv", "srvPub", "51820", "off">>

\* the lines of `wg show <iface> dump`
WgShowDump(k) == <<DumpHeaderLine>> \o [i \in 1..Len(k) |-> DumpPeerLine(k[i])]

(* ---------------- WGRepository ---------------- *)
\* runWgCommand: the error of an invocation that ended with `outcome`
RunWgError(outcome) ==
    CASE outcome = "ok" -> NoErr
      [] outcome = "timeout" -> <<ErrWgTimeout>>
      [] OTHER -> <<"wg: execution failed", "exit status 1">>

\* strconv.ParseInt / ParseUint / Atoi with the parser's fallback to 0
ParseOrZero(s) == IF Atoi(s) = <<>> THEN 0 ELSE Atoi(s)[1]

\* a parser that fills PrivateKey from the line (the field after the key)
ParsePeerLineKeepsSecret(parts) ==
    Config(parts[1], IF parts[2] = "(none)" THEN "" ELSE parts[2],
           IF parts[2] = "(none)" THEN "" ELSE parts[2],
           IF parts[3] = "(none)" THEN "" ELSE parts[3],
           IF parts[4] # NoneStr THEN Split(parts[4]) ELSE <<>>,
           ParseOrZero(parts[5]), ParseOrZero(parts[6]), ParseOrZero(parts[7]),
           IF parts[8] # "off" THEN ParseOrZero(parts[8]) ELSE 0)

\* a parser that takes every field as it stands
ParsePeerLineLiteral(parts) ==
    Config(parts[1], "", parts[2], parts[3], Split(parts[4]),
           ParseOrZero(parts[5]), ParseOrZero(parts[6]), ParseOrZero(parts[7]),
           IF parts[8] # "off" THEN ParseOrZero(parts[8]) ELSE 0)

\* ListConfigs, the body of the loop for one accepted line
ParsePeerLine(parts) ==
    Config(parts[1], "",
           IF parts[2] = "(none)" THEN "" ELSE parts[2],
           IF parts[3] = "(none)" THEN "" ELSE parts[3],
           IF parts[4] # NoneStr THEN Split(parts[4]) ELSE <<>>,
           ParseOrZero(parts[5]), ParseOrZero(parts[6]), ParseOrZero(parts[7]),
           IF parts[8] # "off" THEN ParseOrZero(parts[8]) ELSE 0)

RECURSIVE ParseLinesBreaksOnSkip(_, _)
\* a line loop that leaves the loop where it should pass over a line
ParseLinesBreaksOnSkip(lines, isFirstLine) ==
    IF lines = <<>> THEN <<>>
    ELSE LET parts == Head(lines)
         IN IF Len(parts) = 0 THEN ParseLinesBreaksOnSkip(Tail(lines), isFirstLine)
            ELSE IF Len(parts) < 8 THEN <<>>
            ELSE <<ParsePeerLine(parts)>> \o ParseLinesBreaksOnSkip(Tail(lines), FALSE)

RECURSIVE ParseLines(_, _)
\* ListConfigs, the loop over the lines: an empty line is passed over, the
\* first other line is dropped unless it has 8 fields, a later line is
\* dropped when it has fewer than 8
ParseLines(lines, isFirstLine) ==
    IF lines = <<>> THEN <<>>
    ELSE LET parts == Head(lines)
         IN IF Len(parts) = 0 THEN ParseLines(Tail(lines), isFirstLine)
            ELSE IF isFirstLine /\ Len(parts) # 8 THEN ParseLines(Tail(lines), FALSE)
            ELSE IF Len(parts) < 8 THEN ParseLines(Tail(lines), FALSE)
            ELSE <<ParsePeerLine(parts)>> \o ParseLines(Tail(lines), FALSE)

\* WGRepository.ListConfigs: [cfgs, err]
ListConfigs(k, outcome) ==
    IF outcome = "timeout" THEN [cfgs |-> <<>>, err |-> <<ErrWgTimeout>>]
    ELSE IF outcome # "ok"
    THEN [cfgs |-> <<>>,
          err |-> Wrap("failed to list peer configurations", RunWgError(outcome))]
    ELSE [cfgs |-> ParseLines(WgShowDump(k), TRUE), err |-> NoErr]

\* a GetConfig that reports a missing peer with an error of its own
GetConfigPlainNotFound(k, publicKey, outcome) ==
    LET all == ListConfigs(k, outcome)
        hits == SelectSeq(all.cfgs, LAMBDA c : c.publicKey = publicKey)
    IN IF all.err # NoErr THEN [cfg |-> <<>>, ran |-> TRUE, err |-> all.err]
       ELSE IF hits # <<>> THEN [cfg |-> <<hits[1]>>, ran |-> TRUE, err |-> NoErr]
       ELSE [cfg |-> <<>>, ran |-> TRUE, err |-> <<"not found">>]

\* WGRepository.GetConfig: [cfg, err, ran]; cfg is <<>> for nil, ran tells
\* whether the utility was invoked
GetConfig(k, publicKey, outcome) ==
    IF publicKey = ""
    THEN [cfg |-> <<>>, ran |-> FALSE,
          err |-> <<"public key cannot be empty when fetching peer config">>]
    ELSE LET all == ListConfigs(k, outcome)
             hits == SelectSeq(all.cfgs, LAMBDA c : c.publicKey = publicKey)
         IN IF all.err # NoErr THEN [cfg |-> <<>>, ran |-> TRUE, err |-> all.err]
            ELSE IF hits # <<>> THEN [cfg |-> <<hits[1]>>, ran |-> TRUE, err |-> NoErr]
            ELSE [cfg |-> <<>>, ran |-> TRUE, err |-> <<ErrPeerNotFound>>]

\* WGRepository.CreateConfig, the command line it builds
CreateConfigArgs(cfg) ==
    IF cfg.preSharedKey # ""
    THEN SetArgs(cfg.publicKey, <<"/dev/stdin">>,
                 IF Len(cfg.allowedIps) > 0 THEN <<Join(cfg.allowedIps)>> ELSE <<>>,
                 IF cfg.persistentKeepalive > 0
                     THEN <<Itoa(cfg.persistentKeepalive)>> ELSE <<>>,
                 FALSE, cfg.preSharedKey)
    ELSE SetArgs(cfg.publicKey, <<>>,
                 IF Len(cfg.allowedIps) > 0 THEN <<Join(cfg.allowedIps)>> ELSE <<<<>>>>,
                 IF cfg.persistentKeepalive > 0
                     THEN <<Itoa(cfg.persistentKeepalive)>> ELSE <<>>,
                 FALSE, "")

\* a CreateConfig that ignores the exit status of `wg set`
CreateConfigIgnoresExit(cfg, outcome) ==
    IF cfg.publicKey = ""
    THEN [err |-> <<"public key is required to create peer config">>, args |-> <<>>]
    ELSE [err |-> IF outcome = "timeout" THEN <<ErrWgTimeout>> ELSE NoErr,
          args |-> <<CreateConfigArgs(cfg)>>]

\* WGRepository.CreateConfig: [err, args]; args is <<>> when nothing ran
CreateConfig(cfg, outcome) ==
    IF cfg.publicKey = ""
    THEN [err |-> <<"public key is required to create peer config">>, args |-> <<>>]
    ELSE [err |-> IF outcome = "ok" THEN NoErr
                  ELSE IF cfg.preSharedKey # ""
                  THEN (IF outcome = "timeout" THEN <<ErrWgTimeout>>
                        ELSE <<"wg set peer with PSK: failed", "exit status 1">>)
                  ELSE Wrap("failed to create peer config", RunWgError(outcome)),
          args |-> <<CreateConfigArgs(cfg)>>]

\* an UpdateAllowedIPs that leaves the allowed-ips argument out when the
\* list is empty, as CreateConfig does on its preshared-key path
UpdateAllowedIPsSkipsEmpty(publicKey, allowedIps, outcome) ==
    [err |-> IF outcome = "ok" THEN NoErr
             ELSE Wrap("failed to update allowed IPs", RunWgError(outcome)),
     args |-> <<SetArgs(publicKey, <<>>,
                        IF Len(allowedIps) > 0 THEN <<Join(allowedIps)>> ELSE <<>>,
                        <<>>, FALSE, "")>>]

\* WGRepository.UpdateAllowedIPs: [err, args]
UpdateAllowedIPs(publicKey, allowedIps, outcome) ==
    IF publicKey = ""
    THEN [err |-> <<"public key is required to update peer's allowed IPs">>,
          args |-> <<>>]
    ELSE [err |-> IF outcome = "ok" THEN NoErr
                  ELSE Wrap("failed to update allowed IPs", RunWgError(outcome)),
          args |-> <<SetArgs(publicKey, <<>>, <<Join(allowedIps)>>, <<>>, FALSE, "")>>]

\* a DeleteConfig that takes the peer's allowed IPs away and leaves the peer
DeleteConfigClearsAllowedIps(publicKey, outcome) ==
    IF publicKey = ""
    THEN [err |-> <<"public key is required to delete peer config">>, args |-> <<>>]
    ELSE [err |-> IF outcome = "ok" THEN NoErr
                  ELSE Wrap("failed to delete peer", RunWgError(outcome)),
          args |-> <<SetArgs(publicKey, <<>>, <<<<>>>>, <<>>, FALSE, "")>>]

\* WGRepository.DeleteConfig: [err, args]
DeleteConfig(publicKey, outcome) ==
    IF publicKey = ""
    THEN [err |-> <<"public key is required to delete peer config">>, args |-> <<>>]
    ELSE [err |-> IF outcome = "ok" THEN NoErr
                  ELSE Wrap("failed to delete peer", RunWgError(outcome)),
          args |-> <<SetArgs(publicKey, <<>>, <<>>, <<>>, TRUE, "")>>]

\* the interface after a repository call that built `r.args`
After(k, r, outcome) == IF r.args = <<>> THEN k ELSE Apply(k, r.args[1], outcome)

(* ---------------- ConfigService ---------------- *)
\* one call of the service into the gateway (or into key generation), kept
\* per request: the record handed over (<<>> when none), the command line
\* built (<<>> when no subprocess ran) and the error that came back
Call(fn, key, cfg, args, err) ==
    [fn |-> fn, key |-> key, cfg |-> cfg, args |-> args, err |-> err]

KeyGenOutcomes == {"ok", "genkey_fail", "genkey_timeout", "pubkey_fail", "pubkey_timeout"}

\* a generateKeyPair that derives the public key once and hands out that
\* one with every later private key
generateKeyPairStalePub(n, kg) ==
    IF kg = "ok"
    THEN [priv |-> PrivNames[n], pub |-> WgPubkey(PrivNames[1]), err |-> NoErr]
    ELSE [priv |-> "", pub |-> "", err |-> <<"key generation failed">>]

\* ConfigService.generateKeyPair with the n-th key `wg genkey` hands out
generateKeyPair(n, kg) ==
    CASE kg = "genkey_timeout" ->
            [priv |-> "", pub |-> "", err |-> <<"wg genkey timed out", ErrWgTimeout>>]
      [] kg = "genkey_fail" ->
            [priv |-> "", pub |-> "", err |-> <<"wg genkey command failed">>]
      [] kg = "pubkey_timeout" ->
            [priv |-> "", pub |-> "", err |-> <<"wg pubkey timed out", ErrWgTimeout>>]
      [] kg = "pubkey_fail" ->
            [priv |-> "", pub |-> "", err |-> <<"wg pubkey command failed">>]
      [] OTHER ->
            [priv |-> PrivNames[n], pub |-> WgPubkey(PrivNames[n]), err |-> NoErr]

\* ConfigService.GetAll: [cfgs, err, calls]
SvcGetAll(k, outcome) ==
    LET r == ListConfigs(k, outcome)
    IN [cfgs |-> r.cfgs, err |-> r.err,
        calls |-> <<Call("ListConfigs", "", <<>>, <<"show">>, r.err)>>]

\* ConfigService.Get: [cfg, err, calls]
SvcGet(k, publicKey, outcome) ==
    IF publicKey = ""
    THEN [cfg |-> <<>>, err |-> <<"public key cannot be empty for Get operation">>,
          calls |-> <<>>]
    ELSE LET r == GetConfig(k, publicKey, outcome)
         IN [cfg |-> r.cfg, err |-> r.err,
             calls |-> <<Call("GetConfig", publicKey, <<>>,
                              IF r.ran THEN <<"show">> ELSE <<>>, r.err)>>]

\* a CreateWithNewKeys that hands the response record to the repository
CreateRepoCfgWithPrivateKey(newPubKey, newPrivKey, allowedIPs, presharedKey, persistentKeepalive) ==
    Config(newPubKey, newPrivKey, presharedKey, "", allowedIPs, 0, 0, 0, persistentKeepalive)

\* ConfigService.CreateWithNewKeys, the record it hands to the repository
CreateRepoCfg(newPubKey, newPrivKey, allowedIPs, presharedKey, persistentKeepalive) ==
    Config(newPubKey, "", presharedKey, "", allowedIPs, 0, 0, 0, persistentKeepalive)

\* a CreateWithNewKeys that looks at the key generation's error only after it
\* has called CreateConfig
CreateWithNewKeysChecksLate(allowedIPs, presharedKey, persistentKeepalive, n, kg, outcome) ==
    LET keys == generateKeyPair(n, kg)
        genCall == Call("generateKeyPair", "", <<>>, <<"genkey">>, keys.err)
        newPeerCfg == Config(keys.pub, keys.priv, presharedKey, "", allowedIPs,
                             0, 0, 0, persistentKeepalive)
        repoPeerCfg == CreateRepoCfg(keys.pub, keys.priv, allowedIPs, presharedKey,
                                     persistentKeepalive)
        r == CreateConfig(repoPeerCfg, outcome)
        calls == <<genCall, Call("CreateConfig", keys.pub, <<repoPeerCfg>>, r.args, r.err)>>
    IN IF keys.err # NoErr
       THEN [cfg |-> <<>>, args |-> r.args, calls |-> calls,
             err |-> Wrap("failed to generate key pair for new peer", keys.err)]
       ELSE IF r.err # NoErr
       THEN [cfg |-> <<>>, args |-> r.args, calls |-> calls,
             err |-> Wrap("failed to add new peer to WireGuard", r.err)]
       ELSE [cfg |-> <<newPeerCfg>>, args |-> r.args, calls |-> calls, err |-> NoErr]

\* a CreateWithNewKeys that returns the record it built together with the
\* error of CreateConfig
CreateWithNewKeysKeepsCfgOnError(allowedIPs, presharedKey, persistentKeepalive, n, kg, outcome) ==
    LET keys == generateKeyPair(n, kg)
        genCall == Call("generateKeyPair", "", <<>>, <<"genkey">>, keys.err)
        newPeerCfg == Config(keys.pub, keys.priv, presharedKey, "", allowedIPs,
                             0, 0, 0, persistentKeepalive)
        repoPeerCfg == CreateRepoCfg(keys.pub, keys.priv, allowedIPs, presharedKey,
                                     persistentKeepalive)
        r == CreateConfig(repoPeerCfg, outcome)
        calls == <<genCall, Call("CreateConfig", keys.pub, <<repoPeerCfg>>, r.args, r.err)>>
    IN IF keys.err # NoErr
       THEN [cfg |-> <<>>, args |-> <<>>, calls |-> <<genCall>>,
             err |-> Wrap("failed to generate key pair for new peer", keys.err)]
       ELSE IF r.err # NoErr
       THEN [cfg |-> <<newPeerCfg>>, args |-> r.args, calls |-> calls,
             err |-> Wrap("failed to add new peer to WireGuard", r.err)]
       ELSE [cfg |-> <<newPeerCfg>>, args |-> r.args, calls |-> calls, err |-> NoErr]

\* ConfigService.CreateWithNewKeys: [cfg, err, calls, args]
CreateWithNewKeys(allowedIPs, presharedKey, persistentKeepalive, n, kg, outcome) ==
    LET keys == generateKeyPair(n, kg)
        genCall == Call("generateKeyPair", "", <<>>, <<"genkey">>, keys.err)
        newPeerCfg == Config(keys.pub, keys.priv, presharedKey, "", allowedIPs,
                             0, 0, 0, persistentKeepalive)
        repoPeerCfg == CreateRepoCfg(keys.pub, keys.priv, allowedIPs, presharedKey,
                                     persistentKeepalive)
        r == CreateConfig(repoPeerCfg, outcome)
    IN IF keys.err # NoErr
       THEN [cfg |-> <<>>, args |-> <<>>, calls |-> <<genCall>>,
             err |-> Wrap("failed to generate key pair for new peer", keys.err)]
       ELSE IF r.err # NoErr
       THEN [cfg |-> <<>>, args |-> r.args,
             calls |-> <<genCall, Call("CreateConfig", keys.pub, <<repoPeerCfg>>, r.args, r.err)>>,
             err |-> Wrap("failed to add new peer to WireGuard", r.err)]
       ELSE [cfg |-> <<newPeerCfg>>, args |-> r.args,
             calls |-> <<genCall, Call("CreateConfig", keys.pub, <<repoPeerCfg>>, r.args, r.err)>>,
             err |-> NoErr]

\* ConfigService.UpdateAllowedIPs: [err, calls, args]
SvcUpdateAllowedIPs(publicKey, ips, outcome) ==
    IF publicKey = ""
    THEN [err |-> <<"public key is required for updating allowed IPs">>,
          calls |-> <<>>, args |-> <<>>]
    ELSE LET r == UpdateAllowedIPs(publicKey, ips, outcome)
         IN [err |-> r.err, args |-> r.args,
             calls |-> <<Call("UpdateAllowedIPs", publicKey, <<>>, r.args, r.err)>>]

\* a Delete that looks the peer up first and reports a missing one
SvcDeleteLooksUp(publicKey, outcome) ==
    IF publicKey \notin KernelKeys(peers)
    THEN [err |-> <<"cannot delete peer", ErrPeerNotFound>>, calls |-> <<>>, args |-> <<>>]
    ELSE LET r == DeleteConfig(publicKey, outcome)
         IN [err |-> r.err, args |-> r.args,
             calls |-> <<Call("DeleteConfig", publicKey, <<>>, r.args, r.err)>>]

\* ConfigService.Delete: [err, calls, args]
SvcDelete(publicKey, outcome) ==
    IF publicKey = ""
    THEN [err |-> <<"public key is required for deleting a peer">>,
          calls |-> <<>>, args |-> <<>>]
    ELSE LET r == DeleteConfig(publicKey, outcome)
         IN [err |-> r.err, args |-> r.args,
             calls |-> <<Call("DeleteConfig", publicKey, <<>>, r.args, r.err)>>]

\* NewConfigService: the server's public key and endpoint
serverBasePublicKey == "srvPub"
serverBaseEndpoint == <<"vpn.example.com:51820">>
\* NewConfigService: the DNS servers written into client files
clientConfigDNSServers == <<<<"1.1.1.1">>, <<"1.0.0.1">>>>
\* the client MTU of the deployment's environment (empty or "0": none)
CLIENT_CONFIG_MTU == "1420"

RECURSIVE JoinWith(_, _)
\* strings.Join(list, sep)
JoinWith(list, sep) ==
    IF Len(list) = 0 THEN <<>>
    ELSE IF Len(list) = 1 THEN list[1]
    ELSE list[1] \o <<sep>> \o JoinWith(Tail(list), sep)

\* a service that keeps the first private key it is given and writes that one
\* into every later artifact
BuildClientConfigKeepsKey(peerCfg, clientPrivateKey) ==
    LET kept == IF supplied = {} THEN clientPrivateKey
                ELSE CHOOSE k \in supplied : TRUE
    IN IF peerCfg = <<>> \/ clientPrivateKey = ""
       THEN [text |-> <<>>, err |-> <<"cannot build client config">>]
       ELSE [err |-> NoErr,
             text |-> <<<<"[Interface]">>, <<"PrivateKey = ", kept>>, <<>>, <<"[Peer]">>,
                        <<"PublicKey = ", serverBasePublicKey>>,
                        <<"AllowedIPs = 0.0.0.0/0, ::/0">>>>]

\* ConfigService.BuildClientConfig: [text, err]; peerCfg is <<>> for nil, the
\* text is the sequence of its lines
BuildClientConfig(peerCfg, clientPrivateKey) ==
    IF peerCfg = <<>>
    THEN [text |-> <<>>, err |-> <<"peer configuration cannot be nil for BuildClientConfig">>]
    ELSE IF clientPrivateKey = ""
    THEN [text |-> <<>>, err |-> <<"client private key cannot be empty for building .conf file">>]
    ELSE IF peerCfg[1].publicKey = ""
    THEN [text |-> <<>>, err |-> <<"peer public key is missing from peerCfg">>]
    ELSE LET c == peerCfg[1]
         IN [err |-> NoErr,
             text |-> <<<<"[Interface]">>, <<"PrivateKey = ", clientPrivateKey>>>>
                      \o (IF Len(c.allowedIps) > 0
                          THEN <<<<"Address = ">> \o c.allowedIps[1]>> ELSE <<>>)
                      \o (IF Len(clientConfigDNSServers) > 0
                          THEN <<<<"DNS = ">> \o JoinWith(clientConfigDNSServers, ", ")>>
                          ELSE <<>>)
                      \o <<<<>>, <<"[Peer]">>, <<"PublicKey = ", serverBasePublicKey>>>>
                      \o (IF serverBaseEndpoint # <<>>
                          THEN <<<<"Endpoint = ">> \o serverBaseEndpoint>> ELSE <<>>)
                      \o (IF c.preSharedKey # ""
                          THEN <<<<"PresharedKey = ", c.preSharedKey>>>> ELSE <<>>)
                      \o <<<<"AllowedIPs = 0.0.0.0/0, ::/0">>>>
                      \o (IF c.persistentKeepalive > 0
                          THEN <<<<"PersistentKeepalive = ", Itoa(c.persistentKeepalive)>>>>
                          ELSE <<>>)]

(* ---------------- ConfigHandler ---------------- *)
\* an HTTP response: status, the error body's message (<<>> when the body is
\* no error body), the peer records of the body, the lines of a text/plain
\* body and the `status` string of a readiness body
Response(status, error, cfgs) ==
    [status |-> status, error |-> error, cfgs |-> cfgs, text |-> <<>>, ready |-> ""]

NoResponse == Response(0, <<>>, <<>>)

\* a handleError without the case for ErrWgTimeout
handleErrorNoTimeoutCase(key, err) ==
    IF ErrorsIs(err, ErrPeerNotFound)
    THEN Response(404, <<"Peer with public key not found.", key>>, <<>>)
    ELSE Response(500, err, <<>>)

\* a handleError whose default case answers 503
handleErrorDefaultUnavailable(key, err) ==
    IF ErrorsIs(err, ErrPeerNotFound)
    THEN Response(404, <<"Peer with public key not found.", key>>, <<>>)
    ELSE IF ErrorsIs(err, ErrWgTimeout)
    THEN Response(503, <<"WireGuard operation timed out.">>, <<>>)
    ELSE Response(503, err, <<>>)

\* ConfigHandler.handleError
handleError(key, err) ==
    IF ErrorsIs(err, ErrPeerNotFound)
    THEN Response(404, <<"Peer with public key not found.", key>>, <<>>)
    ELSE IF ErrorsIs(err, ErrWgTimeout)
    THEN Response(503, <<"WireGuard operation timed out.">>, <<>>)
    ELSE Response(500, err, <<>>)

\* c.ShouldBindJSON fails: the body is no JSON, or a required field is
\* missing or empty
BadRequest == Response(400, <<"Invalid request body">>, <<>>)

\* a GetConfig whose request type does not mark public_key as required
GetConfigResponseNoBinding(k, publicKey, outcome) ==
    LET r == SvcGet(k, publicKey, outcome)
    IN IF r.err # NoErr THEN handleError(publicKey, r.err)
       ELSE Response(200, <<>>, r.cfg)

\* ConfigHandler.GetConfig on a decoded request, for one result of the dump
GetConfigResponse(k, publicKey, outcome) ==
    IF publicKey = "" THEN BadRequest
    ELSE LET r == SvcGet(k, publicKey, outcome)
         IN IF r.err # NoErr THEN handleError(publicKey, r.err)
            ELSE Response(200, <<>>, r.cfg)

\* ConfigHandler.GenerateClientConfigFile on a decoded request
ClientFileResponse(k, clientPublicKey, clientPrivateKey, outcome) ==
    IF clientPublicKey = "" \/ clientPrivateKey = "" THEN BadRequest
    ELSE LET g == SvcGet(k, clientPublicKey, outcome)
             b == BuildClientConfig(g.cfg, clientPrivateKey)
         IN IF g.err # NoErr THEN handleError(clientPublicKey, g.err)
            ELSE IF b.err # NoErr THEN handleError(clientPublicKey, b.err)
            ELSE [Response(200, <<>>, <<>>) EXCEPT !.text = b.text]

\* a readiness probe with one message for every failure
ReadinessResponseOneMessage(err) ==
    IF err = NoErr THEN [Response(200, <<>>, <<>>) EXCEPT !.ready = "ready"]
    ELSE [Response(503, <<"WireGuard utility is not accessible or responding.">>, <<>>)
             EXCEPT !.ready = "not ready"]

\* HealthReadiness, from the error of ListConfigs to the response
ReadinessResponse(err) ==
    IF err = NoErr THEN [Response(200, <<>>, <<>>) EXCEPT !.ready = "ready"]
    ELSE IF ErrorsIs(err, ErrWgTimeout)
    THEN [Response(503, <<"WireGuard command timed out during readiness check.">>, <<>>)
             EXCEPT !.ready = "not ready"]
    ELSE [Response(503, <<"WireGuard check failed: ">> \o err, <<>>)
             EXCEPT !.ready = "not ready"]

\* ConfigHandler.RotatePeer, from the service's return to the response
RotatePeerResponse(publicKey, newCfg, err) ==
    IF err # NoErr THEN handleError(publicKey, err)
    ELSE Response(200, <<>>, newCfg)

(* ---------------- ConfigService.RotatePeerKey, step by step ---------------- *)
\* a rotation that does not carry the keepalive interval over
RotateRepoCfgDropsKeepalive(newPubKey, newPrivKey, oldCfg) ==
    Config(newPubKey, "", oldCfg.preSharedKey, "", oldCfg.allowedIps, 0, 0, 0, 0)

\* a rotation that does not carry the preshared key over
RotateRepoCfgDropsPsk(newPubKey, newPrivKey, oldCfg) ==
    Config(newPubKey, "", "", "", oldCfg.allowedIps, 0, 0, 0,
           oldCfg.persistentKeepalive)

\* the record RotatePeerKey hands to the repository for the new key
RotateRepoCfg(newPubKey, newPrivKey, oldCfg) ==
    Config(newPubKey, "", oldCfg.preSharedKey, "", oldCfg.allowedIps, 0, 0, 0,
           oldCfg.persistentKeepalive)

\* the record RotatePeerKey returns to its caller
RotateNewCfg(newPubKey, newPrivKey, oldCfg) ==
    Config(newPubKey, newPrivKey, oldCfg.preSharedKey, "", oldCfg.allowedIps, 0, 0, 0,
           oldCfg.persistentKeepalive)

\* a RotatePeerKey that reports a missing peer without wrapping ErrPeerNotFound
RotateFetchPlainError(k, oldPublicKey, n, outcome, kg) ==
    LET g == GetConfig(k, oldPublicKey, outcome)
        getCall == Call("GetConfig", oldPublicKey, <<>>,
                        IF g.ran THEN <<"show">> ELSE <<>>, g.err)
        keys == generateKeyPair(n, kg)
        genCall == Call("generateKeyPair", "", <<>>, <<"genkey">>, keys.err)
    IN IF g.err # NoErr
       THEN [oldCfg |-> <<>>, keys |-> keys, calls |-> <<getCall>>,
             err |-> <<"cannot rotate key for peer: not found">>]
       ELSE IF keys.err # NoErr
       THEN [oldCfg |-> g.cfg, keys |-> keys, calls |-> <<getCall, genCall>>,
             err |-> Wrap("key pair generation failed during rotation", keys.err)]
       ELSE [oldCfg |-> g.cfg, keys |-> keys, calls |-> <<getCall, genCall>>,
             err |-> NoErr]

\* RotatePeerKey up to the new key pair: [oldCfg, keys, err, calls]
RotateFetch(k, oldPublicKey, n, outcome, kg) ==
    LET g == GetConfig(k, oldPublicKey, outcome)
        getCall == Call("GetConfig", oldPublicKey, <<>>,
                        IF g.ran THEN <<"show">> ELSE <<>>, g.err)
        keys == generateKeyPair(n, kg)
        genCall == Call("generateKeyPair", "", <<>>, <<"genkey">>, keys.err)
    IN IF oldPublicKey = ""
       THEN [oldCfg |-> <<>>, keys |-> keys, calls |-> <<>>,
             err |-> <<"old public key cannot be empty for key rotation">>]
       ELSE IF g.err # NoErr
       THEN [oldCfg |-> <<>>, keys |-> keys, calls |-> <<getCall>>,
             err |-> IF ErrorsIs(g.err, ErrPeerNotFound)
                     THEN <<"cannot rotate key for peer", ErrPeerNotFound>>
                     ELSE Wrap("failed to retrieve config before rotation", g.err)]
       ELSE IF keys.err # NoErr
       THEN [oldCfg |-> g.cfg, keys |-> keys, calls |-> <<getCall, genCall>>,
             err |-> Wrap("key pair generation failed during rotation", keys.err)]
       ELSE [oldCfg |-> g.cfg, keys |-> keys, calls |-> <<getCall, genCall>>,
             err |-> NoErr]

\* a RotatePeerKey that returns the new record although CreateConfig failed
RotateCreateFailedKeepsCfg(newCfg, err) ==
    [cfg |-> <<newCfg>>,
     err |-> Wrap("failed to apply new configuration for rotated peer", err)]

\* what RotatePeerKey returns after its CreateConfig call failed with `err`
RotateCreateFailed(newCfg, err) ==
    [cfg |-> <<>>, err |-> Wrap("failed to apply new configuration for rotated peer", err)]

\* a RotatePeerKey that returns no record when DeleteConfig failed
RotateFinishDropsCfg(newCfg, err) ==
    IF err # NoErr
    THEN [cfg |-> <<>>,
          err |-> Wrap("new peer created, but failed to delete old peer", err)]
    ELSE [cfg |-> <<newCfg>>, err |-> NoErr]

\* a RotatePeerKey that only logs a failed DeleteConfig
RotateFinishSwallowsError(newCfg, err) == [cfg |-> <<newCfg>>, err |-> NoErr]

\* a RotatePeerKey that returns the error of DeleteConfig as it is, nil and
\* no record when the old peer was removed
RotateFinishReturnsDeleteResult(newCfg, err) ==
    IF err # NoErr
    THEN [cfg |-> <<newCfg>>,
          err |-> Wrap("new peer created, but failed to delete old peer", err)]
    ELSE [cfg |-> <<>>, err |-> NoErr]

\* what RotatePeerKey returns after its DeleteConfig call came back with `err`
RotateFinish(newCfg, err) ==
    IF err # NoErr
    THEN [cfg |-> <<newCfg>>,
          err |-> Wrap("new peer created, but failed to delete old peer", err)]
    ELSE [cfg |-> <<newCfg>>, err |-> NoErr]

(* ---------------- state ---------------- *)
NoReq == [op |-> "none", key |-> "", ips |-> <<>>, psk |-> "", ka |-> 0,
          priv |-> "", decodes |-> TRUE]

\* the private keys a client-file request may carry: none or one, and a
\* second one where callers' keys are told apart
ClientPrivInputs ==
    {"", "cliPriv"} \cup (IF inputs = "files" THEN {"cliPriv2"} ELSE {})
NoLoc == [oldCfg |-> <<>>, oldPeer |-> <<>>, newPriv |-> "", newPub |-> ""]
NoRet == [cfg |-> <<>>, err |-> NoErr]

\* the public keys a request may name: none, the seed peer's (which may or
\* may not be on the interface), any key issued so far
ReqKeys ==
    {"", SeedKey} \cup {PubNames[i] : i \in 1..(nextKey - 1)}
        \cup (IF inputs = "raw" THEN {BadKey} ELSE {})

\* the allowed-ips lists a request may carry
ReqIps == IpLists \cup (IF inputs = "raw" THEN {<<BadIp>>} ELSE {})

\* the interface when the service starts: empty, or carrying one peer that
\* was configured before
SeedPeers ==
    {KernelPeer(SeedKey, "", <<"10.100.0.2/32">>, 25),
     KernelPeer(SeedKey, "psk1", <<"10.100.0.2/32", "10.100.0.3/32">>, 0),
     KernelPeer(SeedKey, "", <<>>, 0)}

\* no request in flight, no key issued yet
\* no subprocess call is being timed
NoTiming == [repo |-> <<>>, clientKeyGenTimeout |-> 0, at |-> "off", op |-> "",
             todo |-> <<>>, ctx |-> <<>>, deadlines |-> <<>>, elapsed |-> 0,
             keyGenSpent |-> 0]

InitIdle ==
    /\ nextKey = 1
    /\ nreq = 0
    /\ pc = [w \in AllWorkers |-> "idle"]
    /\ req = [w \in AllWorkers |-> NoReq]
    /\ loc = [w \in AllWorkers |-> NoLoc]
    /\ resp = [w \in AllWorkers |-> NoResponse]
    /\ ret = [w \in AllWorkers |-> NoRet]
    /\ log = [w \in AllWorkers |-> <<>>]
    /\ window = [w \in AllWorkers |-> <<>>]
    /\ supplied = {}
    /\ timing = NoTiming

\* the interface empty or with the seed peer
InitCommon ==
    /\ peers \in {<<>>} \cup {<<p>> : p \in SeedPeers}
    /\ InitIdle

\* requests are served concurrently, each on its own goroutine
Init ==
    InitCommon /\ workers = AllWorkers /\ inputs = "wellformed"
        /\ dump = <<>> /\ parsed = <<>>

\* one request at a time
InitSeq ==
    InitCommon /\ workers = {1} /\ inputs = "wellformed"
        /\ dump = <<>> /\ parsed = <<>>

\* a peer that no request names
OtherPeer == KernelPeer("pubQ", "psk2", <<"10.100.0.9/32">>, 25)

\* two peers on the interface and callers writing at the same time
InitRace ==
    /\ peers \in {<<p, OtherPeer>> : p \in SeedPeers}
    /\ InitIdle
    /\ workers = AllWorkers /\ inputs = "race" /\ dump = <<>> /\ parsed = <<>>

\* one request at a time, client files asked for with different private keys
InitFile ==
    InitCommon /\ workers = {1} /\ inputs = "files" /\ dump = <<>> /\ parsed = <<>>

\* one request at a time, callers sending whatever they like
InitRaw ==
    InitCommon /\ workers = {1} /\ inputs = "raw" /\ dump = <<>> /\ parsed = <<>>

\* a response stays on the wire until it is delivered; nothing else is
\* observed in between, so every response is seen against the interface as
\* its request left it (racing writes are looked at with their responses
\* still on the wire together)
Quiet == inputs = "race" \/ \A v \in AllWorkers : pc[v] # "done"

\* goroutines are interchangeable: a new request takes the lowest idle one
CanStart(w) ==
    /\ Quiet
    /\ pc[w] = "idle"
    /\ \A v \in workers : v < w => pc[v] # "idle"
    /\ nreq < MaxRequests

\* a command that another request ran with exit status 0 while w's rotation
\* stood between its CreateConfig and its DeleteConfig
Noted(w, args, outcome) ==
    [v \in AllWorkers |->
        IF v # w /\ pc[v] = "rot_delete" /\ args # <<>> /\ outcome = "ok"
        THEN Append(window[v], [remove |-> args[1].remove, peer |-> args[1].peer])
        ELSE IF v = w THEN <<>> ELSE window[v]]

\* history: the private key a client-file request hands over, recorded where
\* callers' keys are told apart
Sent(r) ==
    IF inputs = "files" /\ r.op = "clientfile" /\ r.priv # "" THEN {r.priv} ELSE {}

\* a whole request served in one step
Serve(w, r, response, calls, retv, args, outcome) ==
    /\ nreq' = nreq + 1
    /\ req' = [req EXCEPT ![w] = r]
    /\ pc' = [pc EXCEPT ![w] = "done"]
    /\ loc' = [loc EXCEPT ![w] = NoLoc]
    /\ resp' = [resp EXCEPT ![w] = response]
    /\ ret' = [ret EXCEPT ![w] = retv]
    /\ log' = [log EXCEPT ![w] = calls]
    /\ window' = Noted(w, args, outcome)
    /\ peers' = IF args = <<>> THEN peers ELSE Apply(peers, args[1], outcome)
    /\ supplied' = supplied \cup Sent(r)
    /\ UNCHANGED setup

\* a handler that goes on with the zero request when the body is not JSON
UndecodableGoesOn(w, op) ==
    IF op = "create" /\ nextKey <= MaxKeys
    THEN LET r == CreateWithNewKeys(<<>>, "", 0, nextKey, "ok", "ok")
         IN /\ Serve(w, [NoReq EXCEPT !.op = op, !.decodes = FALSE],
                     Response(201, <<>>, r.cfg), r.calls,
                     [cfg |-> r.cfg, err |-> r.err], r.args, "ok")
            /\ nextKey' = nextKey + 1
    ELSE /\ Serve(w, [NoReq EXCEPT !.op = op, !.decodes = FALSE], BadRequest,
                  <<>>, NoRet, <<>>, "ok")
         /\ UNCHANGED nextKey

\* c.ShouldBindJSON returns an error on a body that is not JSON: the handler
\* answers 400 and returns
Undecodable(w, op) ==
    /\ Serve(w, [NoReq EXCEPT !.op = op, !.decodes = FALSE], BadRequest,
             <<>>, NoRet, <<>>, "ok")
    /\ UNCHANGED nextKey

(* ---------------- the handlers ---------------- *)
\* GET /configs: ConfigHandler.GetAll
GetAll(w) ==
    /\ CanStart(w)
    /\ \E outcome \in Outcomes :
        LET r == SvcGetAll(peers, outcome)
        IN Serve(w, [NoReq EXCEPT !.op = "list"],
                 IF r.err # NoErr THEN handleError("", r.err)
                 ELSE Response(200, <<>>, r.cfgs),
                 r.calls, [cfg |-> <<>>, err |-> r.err], <<>>, outcome)
    /\ UNCHANGED nextKey

\* ConfigHandler.GetConfig
GetByKey(w) ==
    /\ CanStart(w)
    /\ \/ Undecodable(w, "get")
       \/ /\ \E key \in ReqKeys, outcome \in Outcomes :
              LET r == SvcGet(peers, key, outcome)
              IN Serve(w, [NoReq EXCEPT !.op = "get", !.key = key],
                       GetConfigResponse(peers, key, outcome),
                       IF key = "" THEN <<>> ELSE r.calls,
                       IF key = "" THEN NoRet ELSE [cfg |-> r.cfg, err |-> r.err],
                       <<>>, outcome)
          /\ UNCHANGED nextKey

\* POST /configs: ConfigHandler.CreateConfig
CreatePeer(w) ==
    /\ CanStart(w)
    /\ \/ Undecodable(w, "create")
       \/ /\ nextKey <= MaxKeys
          /\ \E ips \in ReqIps, psk \in PskInputs, ka \in KeepaliveInputs,
                kg \in KeyGenOutcomes, outcome \in Outcomes :
              LET r == CreateWithNewKeys(ips, psk, ka, nextKey, kg, outcome)
              IN /\ kg # "ok" => outcome = "ok"
                 /\ Serve(w, [NoReq EXCEPT !.op = "create", !.ips = ips, !.psk = psk, !.ka = ka],
                          IF r.err # NoErr THEN handleError("", r.err)
                          ELSE Response(201, <<>>, r.cfg),
                          r.calls, [cfg |-> r.cfg, err |-> r.err], r.args, outcome)
                 /\ nextKey' = IF kg = "ok" THEN nextKey + 1 ELSE nextKey

\* ConfigHandler.UpdateAllowedIPs
UpdateIps(w) ==
    /\ CanStart(w)
    /\ \/ Undecodable(w, "update")
       \/ /\ \E key \in ReqKeys, ips \in ReqIps, outcome \in Outcomes :
              LET r == SvcUpdateAllowedIPs(key, ips, outcome)
              IN Serve(w, [NoReq EXCEPT !.op = "update", !.key = key, !.ips = ips],
                       IF key = "" THEN BadRequest
                       ELSE IF r.err # NoErr THEN handleError(key, r.err)
                       ELSE Response(200, <<>>, <<>>),
                       IF key = "" THEN <<>> ELSE r.calls,
                       IF key = "" THEN NoRet ELSE [cfg |-> <<>>, err |-> r.err],
                       r.args, outcome)
          /\ UNCHANGED nextKey

\* ConfigHandler.DeleteConfig
DeletePeer(w) ==
    /\ CanStart(w)
    /\ \/ Undecodable(w, "delete")
       \/ /\ \E key \in ReqKeys, outcome \in Outcomes :
              LET r == SvcDelete(key, outcome)
              IN Serve(w, [NoReq EXCEPT !.op = "delete", !.key = key],
                       IF key = "" THEN BadRequest
                       ELSE IF r.err # NoErr THEN handleError(key, r.err)
                       ELSE Response(204, <<>>, <<>>),
                       IF key = "" THEN <<>> ELSE r.calls,
                       IF key = "" THEN NoRet ELSE [cfg |-> <<>>, err |-> r.err],
                       r.args, outcome)
          /\ UNCHANGED nextKey

\* GET /readyz: HealthReadiness
Readiness(w) ==
    /\ CanStart(w)
    /\ \E outcome \in Outcomes :
        LET r == ListConfigs(peers, outcome)
        IN Serve(w, [NoReq EXCEPT !.op = "ready"],
                 ReadinessResponse(r.err),
                 <<Call("ListConfigs", "", <<>>, <<"show">>, r.err)>>,
                 [cfg |-> <<>>, err |-> r.err], <<>>, outcome)
    /\ UNCHANGED nextKey

\* POST /configs/client-file: ConfigHandler.GenerateClientConfigFile
ClientFile(w) ==
    /\ CanStart(w)
    /\ \/ Undecodable(w, "clientfile")
       \/ /\ \E key \in ReqKeys, priv \in ClientPrivInputs, outcome \in Outcomes :
                LET bound == key # "" /\ priv # ""
                    r == SvcGet(peers, key, outcome)
                IN /\ ~bound => outcome = "ok"
                   /\ Serve(w, [NoReq EXCEPT !.op = "clientfile", !.key = key, !.priv = priv],
                            ClientFileResponse(peers, key, priv, outcome),
                            IF bound THEN r.calls ELSE <<>>,
                            IF bound THEN [cfg |-> r.cfg, err |-> r.err] ELSE NoRet,
                            <<>>, outcome)
          /\ UNCHANGED nextKey

\* ConfigHandler.RotatePeer into RotatePeerKey, up to the new key pair
RotateStart(w) ==
    /\ CanStart(w)
    /\ \/ Undecodable(w, "rotate")
       \/ /\ nextKey <= MaxKeys
          /\ \E key \in ReqKeys, outcome \in Outcomes, kg \in KeyGenOutcomes :
              LET f == RotateFetch(peers, key, nextKey, outcome, kg)
                  r == [NoReq EXCEPT !.op = "rotate", !.key = key]
              IN IF key = ""
                 THEN Serve(w, r, BadRequest, <<>>, NoRet, <<>>, outcome) /\ UNCHANGED nextKey
                 ELSE IF f.err # NoErr
                 THEN /\ Serve(w, r, RotatePeerResponse(key, <<>>, f.err), f.calls,
                               [cfg |-> <<>>, err |-> f.err], <<>>, outcome)
                      /\ UNCHANGED nextKey
                 ELSE /\ nreq' = nreq + 1
                      /\ req' = [req EXCEPT ![w] = r]
                      /\ pc' = [pc EXCEPT ![w] = "rot_create"]
                      /\ loc' = [loc EXCEPT ![w] =
                                    [oldCfg |-> f.oldCfg,
                                     oldPeer |-> <<peers[KernelIndex(peers, key)]>>,
                                     newPriv |-> f.keys.priv, newPub |-> f.keys.pub]]
                      /\ resp' = [resp EXCEPT ![w] = NoResponse]
                      /\ ret' = [ret EXCEPT ![w] = NoRet]
                      /\ log' = [log EXCEPT ![w] = f.calls]
                      /\ window' = [window EXCEPT ![w] = <<>>]
                      /\ nextKey' = nextKey + 1
                      /\ UNCHANGED <<peers, setup, supplied>>

\* RotatePeerKey: CreateConfig for the new key
RotateCreate(w) ==
    /\ Quiet
    /\ pc[w] = "rot_create"
    /\ \E outcome \in Outcomes :
        LET l == loc[w]
            repoCfg == RotateRepoCfg(l.newPub, l.newPriv, l.oldCfg[1])
            newCfg == RotateNewCfg(l.newPub, l.newPriv, l.oldCfg[1])
            r == CreateConfig(repoCfg, outcome)
            rv == RotateCreateFailed(newCfg, r.err)
        IN /\ peers' = After(peers, r, outcome)
           /\ log' = [log EXCEPT ![w] =
                         Append(@, Call("CreateConfig", l.newPub, <<repoCfg>>, r.args, r.err))]
           /\ window' = Noted(w, r.args, outcome)
           /\ IF r.err # NoErr
              THEN /\ pc' = [pc EXCEPT ![w] = "done"]
                   /\ ret' = [ret EXCEPT ![w] = rv]
                   /\ resp' = [resp EXCEPT ![w] = RotatePeerResponse(req[w].key, rv.cfg, rv.err)]
              ELSE /\ pc' = [pc EXCEPT ![w] = "rot_delete"]
                   /\ UNCHANGED <<ret, resp>>
    /\ UNCHANGED <<nextKey, nreq, setup, req, loc, supplied>>

\* RotatePeerKey: DeleteConfig for the old key, and the handler's response
RotateDelete(w) ==
    /\ Quiet
    /\ pc[w] = "rot_delete"
    /\ \E outcome \in Outcomes :
        LET l == loc[w]
            newCfg == RotateNewCfg(l.newPub, l.newPriv, l.oldCfg[1])
            r == DeleteConfig(req[w].key, outcome)
            rv == RotateFinish(newCfg, r.err)
        IN /\ peers' = After(peers, r, outcome)
           /\ log' = [log EXCEPT ![w] =
                         Append(@, Call("DeleteConfig", req[w].key, <<>>, r.args, r.err))]
           /\ window' = [v \in AllWorkers |->
                            IF v = w THEN window[w] ELSE Noted(w, r.args, outcome)[v]]
           /\ pc' = [pc EXCEPT ![w] = "done"]
           /\ ret' = [ret EXCEPT ![w] = rv]
           /\ resp' = [resp EXCEPT ![w] = RotatePeerResponse(req[w].key, rv.cfg, rv.err)]
    /\ UNCHANGED <<nextKey, nreq, setup, req, loc, supplied>>

\* the response reaches the caller and the request's goroutine ends
Deliver(w) ==
    /\ pc[w] = "done"
    /\ pc' = [pc EXCEPT ![w] = "idle"]
    /\ req' = [req EXCEPT ![w] = NoReq]
    /\ loc' = [loc EXCEPT ![w] = NoLoc]
    /\ resp' = [resp EXCEPT ![w] = NoResponse]
    /\ ret' = [ret EXCEPT ![w] = NoRet]
    /\ log' = [log EXCEPT ![w] = <<>>]
    /\ window' = [window EXCEPT ![w] = <<>>]
    /\ UNCHANGED <<peers, nextKey, nreq, setup, supplied>>

Next ==
    \/ \E w \in workers : GetAll(w)
    \/ \E w \in workers : GetByKey(w)
    \/ \E w \in workers : CreatePeer(w)
    \/ \E w \in workers : UpdateIps(w)
    \/ \E w \in workers : DeletePeer(w)
    \/ \E w \in workers : Readiness(w)
    \/ \E w \in workers : ClientFile(w)
    \/ \E w \in workers : RotateStart(w)
    \/ \E w \in workers : RotateCreate(w)
    \/ \E w \in workers : RotateDelete(w)
    \/ \E w \in workers : Deliver(w)

\* the requests that read the interface, and nothing that changes it
NextFile ==
    \/ \E w \in workers : GetAll(w)
    \/ \E w \in workers : GetByKey(w)
    \/ \E w \in workers : ClientFile(w)
    \/ \E w \in workers : Deliver(w)

\* the requests that write one peer with one command
NextRace ==
    \/ \E w \in workers : UpdateIps(w)
    \/ \E w \in workers : DeletePeer(w)
    \/ \E w \in workers : Deliver(w)

\* rotations, their steps taken in any order
NextRotate ==
    \/ \E w \in workers : RotateStart(w)
    \/ \E w \in workers : RotateCreate(w)
    \/ \E w \in workers : RotateDelete(w)
    \/ \E w \in workers : Deliver(w)

Spec == Init /\ [][Next]_vars

SpecSeq == InitSeq /\ [][Next]_vars

SpecFile == InitFile /\ [][NextFile]_vars
SpecRace == InitRace /\ [][NextRace]_vars
SpecRotate == InitRace /\ [][NextRotate]_vars
SpecRaw == InitRaw /\ [][Next]_vars

(* ---------------- the dump parser on its own ---------------- *)
\* peer lines as `wg show <iface> dump` prints them, split into fields
PeerLineBare == <<"pubA", "(none)", "(none)", NoneStr, "0", "0", "0", "off">>
PeerLineFull ==
    <<"pubB", "psk1", "198.51.100.7:51820", Join(<<IpA, IpB>>), "25", "0", "0", "25">>
\* lines a peer line is not: one field short, one field long, empty
PeerLineShort == SubSeq(PeerLineFull, 1, 7)
PeerLineLong == <<"pubC", "(none)", "(none)", IpA, "0", "0", "0", "off", "extra">>
EmptyLine == <<>>

PeerLines == {PeerLineBare, PeerLineFull}
DumpLines == PeerLines \cup {PeerLineShort, PeerLineLong, EmptyLine}

\* the output of `wg show <iface> dump`: the interface line, then up to
\* MaxLines further lines
Dumps ==
    {<<DumpHeaderLine>> \o body :
        body \in UNION {[1..n -> DumpLines] : n \in 0..MaxLines}}

InitParse ==
    /\ peers = <<>>
    /\ nextKey = 1
    /\ nreq = 0
    /\ pc = [w \in AllWorkers |-> "idle"]
    /\ req = [w \in AllWorkers |-> NoReq]
    /\ loc = [w \in AllWorkers |-> NoLoc]
    /\ resp = [w \in AllWorkers |-> NoResponse]
    /\ ret = [w \in AllWorkers |-> NoRet]
    /\ log = [w \in AllWorkers |-> <<>>]
    /\ window = [w \in AllWorkers |-> <<>>]
    /\ workers = {1}
    /\ inputs = "wellformed"
    /\ dump \in Dumps
    /\ parsed = <<>>
    /\ supplied = {}
    /\ timing = NoTiming

\* ListConfigs on the output `dump`: parsed becomes <<the records returned>>
ParseDump ==
    /\ dump # <<>>
    /\ parsed = <<>>
    /\ parsed' = <<ParseLines(dump, TRUE)>>
    /\ UNCHANGED <<peers, nextKey, nreq, workers, pc, req, loc, resp, ret, log,
                   window, inputs, dump, supplied, timing>>

NextParse == ParseDump

SpecParse == InitParse /\ [][NextParse]_vars

(* ---------------- FakeWGRepository ---------------- *)
\* FakeWGRepository.Data holding the peers of interface `k`: the records
\* ListConfigs returns for them, by public key
FakeData(k) ==
    LET cfgs == ListConfigs(k, "ok").cfgs
    IN [key \in KernelKeys(k) |->
           cfgs[CHOOSE i \in 1..Len(cfgs) : cfgs[i].publicKey = key]]

\* FakeWGRepository.GetConfig: [cfg, err]
FakeGetConfig(data, key) ==
    IF key \in DOMAIN data
    THEN [cfg |-> <<data[key]>>, err |-> NoErr]
    ELSE [cfg |-> <<>>, err |-> <<"not found">>]

\* FakeWGRepository.CreateConfig: [data, err]
FakeCreateConfig(data, cfg) ==
    [data |-> [key \in DOMAIN data \cup {cfg.publicKey} |->
                  IF key = cfg.publicKey THEN cfg ELSE data[key]],
     err |-> NoErr]

\* FakeWGRepository.UpdateAllowedIPs: [data, err]
FakeUpdateAllowedIPs(data, key, ips) ==
    IF key \notin DOMAIN data
    THEN [data |-> data, err |-> <<"not found">>]
    ELSE [data |-> [data EXCEPT ![key].allowedIps = ips], err |-> NoErr]

\* FakeWGRepository.DeleteConfig: [data, err]
FakeDeleteConfig(data, key) ==
    [data |-> [k \in DOMAIN data \ {key} |-> data[k]], err |-> NoErr]

\* FakeWGRepository.ListConfigs: the records in the map, in no order
FakeListConfigs(data) == [cfgs |-> {data[key] : key \in DOMAIN data}, err |-> NoErr]

(* ---------------- subprocess calls against the clock ---------------- *)
\* seconds
DefaultWgCmdTimeout == 5
DefaultKeyGenTimeout == 5

\* the timeouts the configuration may hand over, in seconds
ConfiguredTimeouts == {-1, 0, 1, 2}

\* how long the utility takes when nobody stops it: <<n>> seconds, or <<>>
\* when it never finishes
Needs == {<<0>>, <<1>>, <<3>>, <<6>>, <<>>}

\* NewWGRepository with a command timeout: the repository, its deadline for
\* every `wg` call as <<seconds>>
NewWGRepository(iface, cmdTimeout) ==
    [iface |-> iface,
     cmdTimeout |-> <<IF cmdTimeout <= 0 THEN DefaultWgCmdTimeout ELSE cmdTimeout>>]

\* NewWGRepository of the revision that takes the interface name alone: its
\* calls are exec.Command("wg", ...) with no context, so no deadline (<<>>)
NewWGRepositoryIface(iface) == [iface |-> iface, cmdTimeout |-> <<>>]

\* NewConfigService, the key generation timeout it keeps
NewConfigService(clientKeyGenTimeout) ==
    IF clientKeyGenTimeout <= 0 THEN DefaultKeyGenTimeout ELSE clientKeyGenTimeout

\* a subprocess started under `deadline` (<<>>: none, <<d>>: a context that
\* expires after d seconds) that would take `need`: whether the call comes
\* back, after how long, and whether the context had expired by then
CommandContext(deadline, need) ==
    IF deadline = <<>>
    THEN [returns |-> need # <<>>,
          elapsed |-> IF need = <<>> THEN 0 ELSE need[1],
          expired |-> FALSE]
    ELSE IF need = <<>> \/ need[1] >= deadline[1]
    THEN [returns |-> TRUE,
          elapsed |-> IF deadline[1] > 0 THEN deadline[1] ELSE 0,
          expired |-> TRUE]
    ELSE [returns |-> TRUE, elapsed |-> need[1], expired |-> FALSE]

\* the subprocesses a request starts, in order, when each one succeeds
Invocations(op) ==
    CASE op = "create" -> <<"genkey", "pubkey", "set">>
      [] op = "rotate" -> <<"show", "genkey", "pubkey", "set", "set">>
      [] op \in {"update", "delete"} -> <<"set">>
      [] OTHER -> <<"show">>

TimedOps == {"list", "get", "create", "update", "delete", "rotate", "clientfile",
             "readiness"}

\* generateKeyPair's programs
KeyGenPrograms == {"genkey", "pubkey"}

\* the deadline the next subprocess of the request runs under: genkey opens
\* the context of its key generation, pubkey runs under what is left of it,
\* every other call gets a context of its own from the repository
DeadlineOf(t) ==
    LET prog == Head(t.todo)
    IN IF prog = "genkey" THEN <<t.clientKeyGenTimeout>>
       ELSE IF prog = "pubkey" THEN t.ctx
       ELSE t.repo[1].cmdTimeout

\* the service is built from a configuration, by one revision of the
\* repository or the other
InitDeadline ==
    /\ peers = <<>>
    /\ nextKey = 1
    /\ nreq = 0
    /\ pc = [w \in AllWorkers |-> "idle"]
    /\ req = [w \in AllWorkers |-> NoReq]
    /\ loc = [w \in AllWorkers |-> NoLoc]
    /\ resp = [w \in AllWorkers |-> NoResponse]
    /\ ret = [w \in AllWorkers |-> NoRet]
    /\ log = [w \in AllWorkers |-> <<>>]
    /\ window = [w \in AllWorkers |-> <<>>]
    /\ workers = {1}
    /\ inputs = "wellformed"
    /\ dump = <<>>
    /\ parsed = <<>>
    /\ supplied = {}
    /\ \E wgCmd \in ConfiguredTimeouts, keyGen \in ConfiguredTimeouts :
         \E repo \in {NewWGRepository(Iface, wgCmd), NewWGRepositoryIface(Iface)} :
             timing = [NoTiming EXCEPT !.repo = <<repo>>,
                                       !.clientKeyGenTimeout = NewConfigService(keyGen),
                                       !.at = "idle"]

TimingUnchanged ==
    UNCHANGED <<peers, nextKey, nreq, workers, pc, req, loc, resp, ret, log,
                window, inputs, dump, parsed, supplied>>

\* a request comes in
StartTimed ==
    /\ timing.at = "idle"
    /\ \E op \in TimedOps :
         timing' = [timing EXCEPT !.at = "busy", !.op = op, !.todo = Invocations(op),
                                  !.ctx = <<>>, !.deadlines = <<>>, !.elapsed = 0,
                                  !.keyGenSpent = 0]
    /\ TimingUnchanged

\* the request starts its next subprocess and waits for it; a time-out or
\* an exit status other than 0 ends the request, and a subprocess that
\* never comes back leaves it waiting
Invoke ==
    /\ timing.at = "busy"
    /\ timing.todo # <<>>
    /\ \E need \in Needs, exit \in {"ok", "fail"} :
         LET prog == Head(timing.todo)
             deadline == DeadlineOf(timing)
             r == CommandContext(deadline, need)
             over == r.expired \/ exit = "fail" \/ Len(timing.todo) = 1
             keyGen == prog \in KeyGenPrograms
         IN timing' =
               IF ~r.returns
               THEN [timing EXCEPT !.at = "blocked",
                                   !.deadlines = Append(@, deadline)]
               ELSE [timing EXCEPT
                        !.at = IF over THEN "done" ELSE "busy",
                        !.todo = IF over THEN <<>> ELSE Tail(@),
                        !.ctx = IF prog = "genkey" THEN <<deadline[1] - r.elapsed>>
                                ELSE @,
                        !.deadlines = Append(@, deadline),
                        !.elapsed = @ + r.elapsed,
                        !.keyGenSpent = IF keyGen THEN @ + r.elapsed ELSE @]
    /\ TimingUnchanged

\* the response is written
FinishTimed ==
    /\ timing.at = "done"
    /\ timing' = [timing EXCEPT !.at = "idle"]
    /\ TimingUnchanged

NextDeadline == StartTimed \/ Invoke \/ FinishTimed

SpecDeadline == InitDeadline /\ [][NextDeadline]_vars

(* ---------------- what the claims speak of ---------------- *)
\* a response is on the wire for worker w's request `op`
Answered(w, op) == pc[w] = "done" /\ req[w].op = op

\* the calls of w's request into `fn`
CallsTo(w, fn) == SelectSeq(log[w], LAMBDA c : c.fn = fn)

\* the subprocess behind a call did not exit 0
UtilityFailed(err) == ErrorsIs(err, ErrWgTimeout) \/ ErrorsIs(err, "exit status 1")

\* a GET of `key` served now, the dump succeeding
HttpGet(key) == GetConfigResponse(peers, key, "ok")

\* the settings of a peer as the interface holds them
KernelSettings(p) == <<[i \in 1..Len(p.ips) |-> <<p.ips[i]>>], p.psk, p.ka>>

\* w's rotation created the new peer and its DeleteConfig came back with an error
RotationPartial(w) ==
    /\ Answered(w, "rotate")
    /\ CallsTo(w, "CreateConfig") # <<>>
    /\ CallsTo(w, "CreateConfig")[1].err = NoErr
    /\ CallsTo(w, "DeleteConfig") # <<>>
    /\ CallsTo(w, "DeleteConfig")[1].err # NoErr

\* w's rotation got an error from its CreateConfig call
RotationCreateFailed(w) ==
    /\ Answered(w, "rotate")
    /\ CallsTo(w, "CreateConfig") # <<>>
    /\ CallsTo(w, "CreateConfig")[1].err # NoErr

(* ---------------- claims ---------------- *)

\* C1: after a rotation whose remove-old step fails (not by timeout), the
\* response is 500 with an error body and carries the new peer record with
\* its private key; GET of the old key and GET of the new key both answer 200.
C1_PartialResponseCarriesNewPeer ==
    \A w \in AllWorkers :
        (RotationPartial(w) /\ ~ErrorsIs(ret[w].err, ErrWgTimeout)) =>
            /\ resp[w].status = 500
            /\ resp[w].error # <<>>
            /\ resp[w].cfgs # <<>>
            /\ resp[w].cfgs[1].publicKey = loc[w].newPub
            /\ resp[w].cfgs[1].privateKey = loc[w].newPriv
            /\ HttpGet(req[w].key).status = 200
            /\ HttpGet(loc[w].newPub).status = 200

\* C2: when the new peer was created and DeleteConfig(old) fails, RotatePeerKey
\* returns a non-nil record with the new private key and the old peer's
\* settings, together with an error; old and new peer are both on the interface.
C2_PartialReturnsNewCfgAndError ==
    \A w \in AllWorkers :
        RotationPartial(w) =>
            /\ ret[w].err # NoErr
            /\ ret[w].cfg # <<>>
            /\ ret[w].cfg[1].publicKey = loc[w].newPub
            /\ ret[w].cfg[1].privateKey = loc[w].newPriv
            /\ ret[w].cfg[1].privateKey # ""
            /\ Settings(ret[w].cfg[1]) = KernelSettings(loc[w].oldPeer[1])
            /\ {req[w].key, loc[w].newPub} \subseteq KernelKeys(peers)

C2_Witness ==
    \E w \in AllWorkers :
        /\ RotationPartial(w)
        /\ ret[w].cfg # <<>>
        /\ loc[w].oldPeer[1].psk # ""

\* C3: after a successful rotation with nothing in between, GET of the old key
\* answers 404, GET of the new key answers 200 with the allowedIps,
\* preSharedKey and persistentKeepalive the old peer had when the rotation
\* started, and the new key differs from the old one.
C3_RotateReplacesPeer ==
    \A w \in AllWorkers :
        (Answered(w, "rotate") /\ resp[w].status = 200) =>
            LET old == req[w].key
                new == resp[w].cfgs[1].publicKey
            IN /\ new # old
               /\ HttpGet(old).status = 404
               /\ HttpGet(new).status = 200
               /\ Settings(HttpGet(new).cfgs[1]) = KernelSettings(loc[w].oldPeer[1])

C3_Witness ==
    \E w \in AllWorkers :
        /\ Answered(w, "rotate")
        /\ resp[w].status = 200
        /\ loc[w].oldPeer[1].ka = 25
        /\ HttpGet(req[w].key).status = 404

\* C4: when CreateConfig for the new key fails, the rotation returns an error
\* and no record, DeleteConfig is never called, and the old peer is still on
\* the interface exactly as it was.
C4_CreateFailureAborts ==
    \A w \in AllWorkers :
        RotationCreateFailed(w) =>
            /\ ret[w].err # NoErr
            /\ ret[w].cfg = <<>>
            /\ resp[w].cfgs = <<>>
            /\ CallsTo(w, "DeleteConfig") = <<>>
            /\ req[w].key \in KernelKeys(peers)
            /\ peers[KernelIndex(peers, req[w].key)] = loc[w].oldPeer[1]
            /\ loc[w].newPub \notin KernelKeys(peers)

C4_Witness ==
    \E w \in AllWorkers :
        /\ RotationCreateFailed(w)
        /\ CallsTo(w, "CreateConfig")[1].args # <<>>
        /\ resp[w].status = 500

\* C5: rotating a key that matches no peer fails with PeerNotFound (404) at
\* step 1: no key pair is generated, neither CreateConfig nor DeleteConfig is
\* called, and the peers of the interface are unchanged.
C5_RotateMissingStopsAtStepOne ==
    [][\A w \in AllWorkers :
          ( /\ pc[w] = "idle"
            /\ req'[w].op = "rotate"
            /\ req'[w].key # ""
            /\ req'[w].key \notin KernelKeys(peers)
            /\ ~UtilityFailed(ret'[w].err) ) =>
              /\ pc'[w] = "done"
              /\ ErrorsIs(ret'[w].err, ErrPeerNotFound)
              /\ ret'[w].cfg = <<>>
              /\ resp'[w].status = 404
              /\ Len(log'[w]) = 1
              /\ log'[w][1].fn = "GetConfig"
              /\ nextKey' = nextKey
              /\ peers' = peers]_vars

C5_Witness ==
    \E w \in AllWorkers :
        /\ Answered(w, "rotate")
        /\ resp[w].status = 404
        /\ req[w].key \notin KernelKeys(peers)
        /\ peers # <<>>

\* C6: the step of a rotation that takes the old peer off the interface finds
\* the new peer on it, unless another request removed the new peer after this
\* rotation added it: no reader sees the old peer removed by a rotation whose
\* new peer was never there.
C6_CreateObservableBeforeDelete ==
    [][\A w \in AllWorkers :
          ( /\ pc[w] = "rot_delete"
            /\ pc'[w] = "done"
            /\ req[w].key \in KernelKeys(peers)
            /\ req[w].key \notin KernelKeys(peers') ) =>
              \/ loc[w].newPub \in KernelKeys(peers)
              \/ \E i \in 1..Len(window[w]) :
                    window[w][i] = [remove |-> TRUE, peer |-> loc[w].newPub]]_vars

C6_Witness ==
    \E w \in AllWorkers, v \in AllWorkers :
        /\ v # w
        /\ Answered(w, "rotate")
        /\ resp[w].status = 200
        /\ pc[v] = "rot_create"
        /\ req[w].key \notin KernelKeys(peers)
        /\ loc[w].newPub \in KernelKeys(peers)

\* C7: when the only thing another request does to the interface between
\* step 3 and step 4 of a rotation is to delete the old key, and the
\* rotation's own remove command exits 0, the rotation answers 200, the old
\* key is absent, and the new key is present with the old peer's settings.
C7_DeleteRaceEndsAsRotateThenDelete ==
    \A w \in AllWorkers :
        ( /\ Answered(w, "rotate")
          /\ window[w] = <<[remove |-> TRUE, peer |-> req[w].key]>>
          /\ CallsTo(w, "DeleteConfig") # <<>>
          /\ ~UtilityFailed(CallsTo(w, "DeleteConfig")[1].err) ) =>
            /\ resp[w].status = 200
            /\ ret[w].err = NoErr
            /\ req[w].key \notin KernelKeys(peers)
            /\ loc[w].newPub \in KernelKeys(peers)
            /\ KernelSettings(peers[KernelIndex(peers, loc[w].newPub)])
                   = KernelSettings(loc[w].oldPeer[1])
            /\ resp[w].cfgs[1].publicKey = loc[w].newPub

C7_Witness ==
    \E w \in AllWorkers :
        /\ Answered(w, "rotate")
        /\ window[w] = <<[remove |-> TRUE, peer |-> req[w].key]>>
        /\ resp[w].status = 200
        /\ loc[w].oldPeer[1].psk # ""

\* the private keys `wg genkey` has handed out so far
IssuedPrivateKeys == {PrivNames[i] : i \in 1..(nextKey - 1)}

\* C8: no response of list, get, update-allowed-ips, delete or readiness
\* carries a non-empty privateKey, also for peers that were just created or
\* rotated; nor does its error body name a private key.
C8_ReadsNeverReturnPrivateKey ==
    \A w \in AllWorkers :
        (pc[w] = "done" /\ req[w].op \in {"list", "get", "update", "delete", "ready"}) =>
            /\ \A i \in 1..Len(resp[w].cfgs) : resp[w].cfgs[i].privateKey = ""
            /\ \A i \in 1..Len(resp[w].error) : resp[w].error[i] \notin IssuedPrivateKeys

C8_Witness ==
    \E w \in AllWorkers :
        /\ Answered(w, "get")
        /\ resp[w].status = 200
        /\ req[w].key = PubNames[1]
        /\ resp[w].cfgs[1].preSharedKey # ""

C10_GetMatchesCreateResponse ==
    \A w \in AllWorkers :
        ( /\ pc[w] = "done"
          /\ req[w].op \in {"create", "rotate"}
          /\ resp[w].status \in {200, 201} ) =>
            LET R == resp[w].cfgs[1]
                g == HttpGet(R.publicKey)
            IN /\ g.status = 200
               /\ Settings(g.cfgs[1]) = Settings(R)
               /\ g.cfgs[1].privateKey = ""

\* C11: in every successful create or rotate response R, R.publicKey is the
\* public key `wg pubkey` derives from R.privateKey, it is the key the
\* request's `wg set` command registered, and the interface carries it.
C11_ResponseKeyIsDerivedAndRegistered ==
    \A w \in AllWorkers :
        ( /\ pc[w] = "done"
          /\ req[w].op \in {"create", "rotate"}
          /\ resp[w].status \in {200, 201} ) =>
            LET R == resp[w].cfgs[1]
            IN /\ R.privateKey \in IssuedPrivateKeys
               /\ WgPubkey(R.privateKey) = R.publicKey
               /\ CallsTo(w, "CreateConfig")[1].args[1].peer = R.publicKey
               /\ R.publicKey \in KernelKeys(peers)

C11_Witness ==
    \E w \in AllWorkers :
        /\ Answered(w, "rotate")
        /\ resp[w].status = 200
        /\ resp[w].cfgs[1].privateKey = PrivNames[2]
        /\ resp[w].cfgs[1].publicKey = PubNames[2]

\* C12: a DELETE naming a key that matches no peer, its `wg set ... remove`
\* exiting 0, is answered 204 and leaves the interface as it was; so a DELETE
\* of the same key answers 204 however often it is repeated.
C12_DeleteOfMissingKeyIsNoOp ==
    [][\A w \in AllWorkers :
          ( /\ pc[w] = "idle"
            /\ pc'[w] = "done"
            /\ req'[w].op = "delete"
            /\ req'[w].decodes
            /\ req'[w].key # ""
            /\ req'[w].key \notin KernelKeys(peers)
            /\ ~UtilityFailed(ret'[w].err) ) =>
              /\ resp'[w].status = 204
              /\ ret'[w].err = NoErr
              /\ CallsTo(w, "DeleteConfig")' # <<>>
              /\ peers' = peers]_vars

C12_Witness ==
    \E w \in AllWorkers :
        /\ Answered(w, "delete")
        /\ resp[w].status = 204
        /\ nreq = 2
        /\ peers # <<>>
        /\ req[w].key \notin KernelKeys(peers)
        /\ req[w].key = SeedKey

\* C13: a GET whose dump succeeds fails with ErrPeerNotFound and answers 404
\* with a message naming the key when the dump lists no peer with that key,
\* and answers 200 with that peer's record when it does.
C13_GetPeerFoundOrNotFound ==
    \A w \in AllWorkers :
        ( /\ Answered(w, "get")
          /\ req[w].decodes
          /\ req[w].key # ""
          /\ ~UtilityFailed(ret[w].err) ) =>
            IF req[w].key \notin KernelKeys(peers)
            THEN /\ ErrorsIs(ret[w].err, ErrPeerNotFound)
                 /\ ret[w].cfg = <<>>
                 /\ resp[w].status = 404
                 /\ \E i \in 1..Len(resp[w].error) : resp[w].error[i] = req[w].key
            ELSE /\ ret[w].err = NoErr
                 /\ resp[w].status = 200
                 /\ resp[w].cfgs = ret[w].cfg
                 /\ resp[w].cfgs[1].publicKey = req[w].key
                 /\ Settings(resp[w].cfgs[1])
                        = KernelSettings(peers[KernelIndex(peers, req[w].key)])

C13_Witness ==
    \E w \in AllWorkers :
        /\ Answered(w, "get")
        /\ resp[w].status = 404
        /\ peers # <<>>
        /\ req[w].key = PubNames[1]

\* C14: an update-allowed-ips request answered 200 for a key K on the
\* interface leaves K with exactly the requested list (none when the list is
\* empty), K's preshared key and keepalive as they were, and every other
\* peer as it was.
C14_UpdateReplacesAllowedIps ==
    [][\A w \in AllWorkers :
          ( /\ pc[w] = "idle"
            /\ pc'[w] = "done"
            /\ req'[w].op = "update"
            /\ resp'[w].status = 200
            /\ req'[w].key \in KernelKeys(peers) ) =>
              LET i == KernelIndex(peers, req'[w].key)
                  L == req'[w].ips
              IN peers' = [peers EXCEPT
                              ![i].ips = [j \in 1..Len(L) |-> L[j][1]]]]_vars

C14_Witness ==
    \E w \in AllWorkers :
        /\ Answered(w, "update")
        /\ resp[w].status = 200
        /\ req[w].ips = <<>>
        /\ req[w].key = SeedKey
        /\ Len(peers) = 2
        /\ peers[KernelIndex(peers, SeedKey)] = KernelPeer(SeedKey, "psk1", <<>>, 0)

\* C15: an update-allowed-ips request naming a key that matches no peer
\* fails with ErrPeerNotFound and is answered 404.
C15_UpdateOfMissingKeyIsNotFound ==
    [][\A w \in AllWorkers :
          ( /\ pc[w] = "idle"
            /\ pc'[w] = "done"
            /\ req'[w].op = "update"
            /\ req'[w].decodes
            /\ req'[w].key # ""
            /\ req'[w].key \notin KernelKeys(peers)
            /\ ~UtilityFailed(ret'[w].err) ) =>
              /\ ErrorsIs(ret'[w].err, ErrPeerNotFound)
              /\ resp'[w].status = 404]_vars

\* the subprocess behind one of the calls of w's request exceeded its deadline
DeadlineExpired(w) ==
    \E i \in 1..Len(log[w]) : ErrorsIs(log[w][i].err, ErrWgTimeout)

\* the error bodies that tell of a timeout
TimeoutBodies ==
    {<<"WireGuard operation timed out.">>,
     <<"WireGuard command timed out during readiness check.">>}

\* C16: on every endpoint, when a subprocess of the request (show dump, set
\* peer, genkey or pubkey) exceeds its deadline, the operation's error is
\* ErrWgTimeout (possibly wrapped) and the response is 503 with a body that
\* tells of the timeout.
C16_TimeoutIsServiceUnavailable ==
    \A w \in AllWorkers :
        (pc[w] = "done" /\ DeadlineExpired(w)) =>
            /\ ErrorsIs(ret[w].err, ErrWgTimeout)
            /\ resp[w].status = 503
            /\ resp[w].error \in TimeoutBodies
            /\ resp[w].cfgs = <<>>

C16_Witness ==
    \E w \in AllWorkers :
        /\ Answered(w, "rotate")
        /\ CallsTo(w, "DeleteConfig") # <<>>
        /\ ErrorsIs(CallsTo(w, "DeleteConfig")[1].err, ErrWgTimeout)
        /\ resp[w].status = 503

\* C17 as stated: a response has status 503 only if a subprocess deadline
\* expired while its request was served.
C17_UnavailableOnlyOnTimeout ==
    \A w \in AllWorkers :
        (pc[w] = "done" /\ resp[w].status = 503) => DeadlineExpired(w)

\* C17, amended: on the /configs endpoints a response has status 503 only if
\* a subprocess deadline expired while its request was served; the readiness
\* probe answers 503 exactly when its dump failed, by timeout or otherwise.
C17_UnavailableOnlyOnTimeoutOrNotReady ==
    \A w \in AllWorkers :
        pc[w] = "done" =>
            IF req[w].op = "ready"
            THEN resp[w].status = 503 <=> ret[w].err # NoErr
            ELSE resp[w].status = 503 => DeadlineExpired(w)

C17_Witness ==
    \E w \in AllWorkers :
        /\ Answered(w, "ready")
        /\ resp[w].status = 503
        /\ ~DeadlineExpired(w)
        /\ nreq = 2

\* a subprocess of w's request failed for a reason other than its deadline
ExecutionFailed(w) ==
    \E i \in 1..Len(log[w]) :
        /\ log[w][i].args # <<>>
        /\ log[w][i].err # NoErr
        /\ ~ErrorsIs(log[w][i].err, ErrWgTimeout)
        /\ ~ErrorsIs(log[w][i].err, ErrPeerNotFound)

\* C18: when a utility call made while serving list, get, create,
\* update-allowed-ips, delete or rotate fails for a reason other than a
\* timeout, the operation returns an error and the response is 500 with an
\* error body and no record.
C18_ExecutionFailureIsInternalError ==
    \A w \in AllWorkers :
        ( /\ pc[w] = "done"
          /\ req[w].op \in {"list", "get", "create", "update", "delete", "rotate"}
          /\ ExecutionFailed(w) ) =>
            /\ ret[w].err # NoErr
            /\ resp[w].status = 500
            /\ resp[w].error # <<>>
            /\ resp[w].cfgs = <<>>

C18_Witness ==
    \E w \in AllWorkers :
        /\ Answered(w, "update")
        /\ ExecutionFailed(w)
        /\ resp[w].status = 500
        /\ req[w].key \in KernelKeys(peers)

\* C19: a request whose body fails to decode is answered 400 with an error
\* body; no call into the service or the utility is made, no key is
\* generated and the interface is left as it was.
C19_UndecodableBodyIsBadRequest ==
    [][\A w \in AllWorkers :
          (pc[w] = "idle" /\ pc'[w] = "done" /\ ~req'[w].decodes) =>
              /\ resp'[w].status = 400
              /\ resp'[w].error # <<>>
              /\ resp'[w].cfgs = <<>>
              /\ log'[w] = <<>>
              /\ nextKey' = nextKey
              /\ peers' = peers]_vars

C19_Witness ==
    \E w \in AllWorkers :
        /\ Answered(w, "create")
        /\ ~req[w].decodes
        /\ resp[w].status = 400
        /\ peers # <<>>

\* C20: a get, update-allowed-ips, delete, rotate or client-file request
\* whose body decodes but whose public key is empty or missing is answered
\* 400; no call into the service or the utility is made and the interface is
\* left as it was.
C20_EmptyPublicKeyIsBadRequest ==
    [][\A w \in AllWorkers :
          ( /\ pc[w] = "idle"
            /\ pc'[w] = "done"
            /\ req'[w].op \in {"get", "update", "delete", "rotate", "clientfile"}
            /\ req'[w].decodes
            /\ req'[w].key = "" ) =>
              /\ resp'[w].status = 400
              /\ resp'[w].error # <<>>
              /\ log'[w] = <<>>
              /\ peers' = peers]_vars

C20_Witness ==
    \E w \in AllWorkers :
        /\ Answered(w, "clientfile")
        /\ req[w].decodes
        /\ req[w].key = ""
        /\ req[w].priv = "cliPriv"
        /\ resp[w].status = 400
        /\ peers # <<>>

\* a string of the length and alphabet of a WireGuard key
WellFormedKey(key) == key = SeedKey \/ \E i \in 1..Len(PubNames) : PubNames[i] = key

\* an allowed-ips argument every entry of which parses as a CIDR
WellFormedIps(csv) ==
    csv = <<>> \/ \A i \in 1..Len(Split(csv)) : Split(csv)[i] \in {IpA, IpB}

\* C21: every `wg set` command a request starts names a well-formed public
\* key, carries only allowed-ips entries that parse as CIDRs, and addresses
\* the configured interface.
C21_OnlyValidatedInputReachesUtility ==
    \A w \in AllWorkers :
        \A i \in 1..Len(log[w]) :
            ( /\ log[w][i].fn \in {"CreateConfig", "UpdateAllowedIPs", "DeleteConfig"}
              /\ log[w][i].args # <<>> ) =>
                LET a == log[w][i].args[1]
                IN /\ a.iface = Iface
                   /\ WellFormedKey(a.peer)
                   /\ a.allowedIps # <<>> => WellFormedIps(a.allowedIps[1])

\* C22: the readiness probe makes exactly one call, to ListConfigs; it
\* answers 200 `ready` when the call succeeds and 503 `not ready` when it
\* fails, with the timeout message exactly when the failure is a timeout.
C22_ReadinessReflectsOneDump ==
    \A w \in AllWorkers :
        Answered(w, "ready") =>
            /\ Len(log[w]) = 1
            /\ log[w][1].fn = "ListConfigs"
            /\ IF log[w][1].err = NoErr
               THEN /\ resp[w].status = 200
                    /\ resp[w].ready = "ready"
                    /\ resp[w].error = <<>>
               ELSE /\ resp[w].status = 503
                    /\ resp[w].ready = "not ready"
                    /\ resp[w].error # <<>>
                    /\ resp[w].error \in TimeoutBodies <=> DeadlineExpired(w)

C22_Witness ==
    \E w \in AllWorkers :
        /\ Answered(w, "ready")
        /\ resp[w].status = 503
        /\ resp[w].error \in TimeoutBodies
        /\ peers # <<>>

\* C23: whatever requests were served, and however they interleaved, the
\* list of peers (as a dump taken now parses, and as any list response on
\* the wire carries it) holds no two records with the same publicKey.
C23_NoTwoPeersShareKey ==
    LET now == ListConfigs(peers, "ok").cfgs
    IN /\ Len(now) = Len(peers)
       /\ \A i, j \in 1..Len(now) : i # j => now[i].publicKey # now[j].publicKey
       /\ \A w \in AllWorkers :
              Answered(w, "list") =>
                  \A i, j \in 1..Len(resp[w].cfgs) :
                      i # j => resp[w].cfgs[i].publicKey # resp[w].cfgs[j].publicKey

C23_Witness ==
    \E w \in AllWorkers :
        /\ Answered(w, "update")
        /\ resp[w].status = 200
        /\ nreq = 2
        /\ Len(ListConfigs(peers, "ok").cfgs) = 2
        /\ peers[1].pub = SeedKey

\* the lines of the dump after the interface line
DumpBody == SubSeq(dump, 2, Len(dump))

\* C24: a dump made of the interface line and N well-formed peer lines
\* parses to exactly N records, the i-th carrying the key of the i-th peer
\* line; the interface line yields no record.
C24_WellFormedDumpParsesLineByLine ==
    (parsed # <<>> /\ \A i \in 1..Len(DumpBody) : DumpBody[i] \in PeerLines) =>
        /\ Len(parsed[1]) = Len(DumpBody)
        /\ \A i \in 1..Len(DumpBody) :
              /\ parsed[1][i].publicKey = DumpBody[i][1]
              /\ parsed[1][i].privateKey = ""
        /\ \A i \in 1..Len(parsed[1]) :
              parsed[1][i].publicKey \notin {DumpHeaderLine[1], DumpHeaderLine[2]}

C24_Witness ==
    /\ parsed # <<>>
    /\ DumpBody = <<PeerLineFull, PeerLineBare, PeerLineFull>>
    /\ Len(parsed[1]) = 3

RECURSIVE EightFieldLines(_)
EightFieldLines(lines) ==
    IF lines = <<>> THEN <<>>
    ELSE IF Len(Head(lines)) = 8
         THEN <<Head(lines)>> \o EightFieldLines(Tail(lines))
         ELSE EightFieldLines(Tail(lines))

\* C26: every line after the interface line that does not have exactly 8
\* fields yields no record, and the lines with 8 fields before and after it
\* all yield theirs, in order.
C26_OnlyEightFieldLinesYieldPeers ==
    parsed # <<>> =>
        LET good == EightFieldLines(DumpBody)
        IN /\ Len(parsed[1]) = Len(good)
           /\ \A i \in 1..Len(good) : parsed[1][i].publicKey = good[i][1]

(* ---------------- the client artifact ---------------- *)
\* a client-file request answered with the artifact
ArtifactServed(w) == Answered(w, "clientfile") /\ resp[w].status = 200

\* the lines of a text that start with the given label
LinesOf(text, label) == SelectSeq(text, LAMBDA l : l # <<>> /\ l[1] = label)
HasLine(text, label) == LinesOf(text, label) # <<>>

\* the lines after the [Peer] header
PeerSection(text) ==
    IF \E i \in 1..Len(text) : text[i] = <<"[Peer]">>
    THEN LET h == CHOOSE i \in 1..Len(text) : text[i] = <<"[Peer]">>
         IN SubSeq(text, h + 1, Len(text))
    ELSE <<>>

\* C27: in the client artifact each optional line (Address, DNS, MTU,
\* Endpoint, PresharedKey, PersistentKeepalive) is present exactly when its
\* source value is non-empty or non-zero, Address is the first entry of the
\* peer's allowed IPs, and the [Peer] section holds exactly one line
\* 'AllowedIPs = 0.0.0.0/0, ::/0'
C27_OptionalLinesFollowSources ==
    \A w \in workers :
        ArtifactServed(w) =>
            LET t == resp[w].text
                c == ret[w].cfg[1]
            IN /\ HasLine(t, "Address = ") <=> c.allowedIps # <<>>
               /\ c.allowedIps # <<>> =>
                      LinesOf(t, "Address = ") = <<<<"Address = ">> \o c.allowedIps[1]>>
               /\ HasLine(t, "DNS = ") <=> clientConfigDNSServers # <<>>
               /\ HasLine(t, "MTU = ") <=> CLIENT_CONFIG_MTU \notin {"", "0"}
               /\ HasLine(t, "Endpoint = ") <=> serverBaseEndpoint # <<>>
               /\ HasLine(t, "PresharedKey = ") <=> c.preSharedKey # ""
               /\ HasLine(t, "PersistentKeepalive = ") <=> c.persistentKeepalive # 0
               /\ Len(SelectSeq(PeerSection(t), LAMBDA l : l # <<>> /\ l[1] = "AllowedIPs = 0.0.0.0/0, ::/0")) = 1
               /\ \A i \in 1..Len(t) :
                      t[i] # <<>> /\ t[i][1] = "AllowedIPs = 0.0.0.0/0, ::/0" => Len(t[i]) = 1

\* the response r carries the text k: in its artifact, its error body or a
\* key field of one of its records
Mentions(r, k) ==
    \/ \E i \in 1..Len(r.text) : \E j \in 1..Len(r.text[i]) : r.text[i][j] = k
    \/ \E i \in 1..Len(r.error) : r.error[i] = k
    \/ \E i \in 1..Len(r.cfgs) :
           k \in {r.cfgs[i].privateKey, r.cfgs[i].publicKey, r.cfgs[i].preSharedKey}

\* the call c into the gateway hands over the text k
HandsOver(c, k) ==
    \/ c.key = k
    \/ \E i \in 1..Len(c.cfg) :
           k \in {c.cfg[i].privateKey, c.cfg[i].publicKey, c.cfg[i].preSharedKey}
    \/ \E i \in 1..Len(c.args) :
           c.args[i] # "show" /\ k \in {c.args[i].peer, c.args[i].stdin}

\* worker w's request is served in this step
Served(w) == pc[w] = "idle" /\ pc'[w] = "done"

\* C28: a client-file request leaves the peers as they were and hands its
\* private key to no gateway call, and no response of a later list, get or
\* client-file request carries a private key that an earlier client-file
\* request supplied, unless the later request supplied that key itself
C28_ClientFileKeepsNoPrivateKey ==
    [][\A w \in workers :
          /\ (Served(w) /\ req'[w].op = "clientfile") =>
                 /\ peers' = peers
                 /\ req'[w].priv # "" =>
                        \A i \in 1..Len(log'[w]) : ~HandsOver(log'[w][i], req'[w].priv)
          /\ (Served(w) /\ req'[w].op \in {"list", "get", "clientfile"}) =>
                 \A k \in supplied :
                     Mentions(resp'[w], k) =>
                         req'[w].op = "clientfile" /\ req'[w].priv = k]_vars

C28_Witness ==
    \E w \in workers :
        /\ ArtifactServed(w)
        /\ req[w].priv = "cliPriv2"
        /\ "cliPriv" \in supplied
        /\ Mentions(resp[w], "cliPriv2")
        /\ Len(log[w]) = 1

(* ---------------- racing writes ---------------- *)
\* the status that tells the caller of a write that it was done
WriteDone(op) == IF op = "delete" THEN 204 ELSE 200

\* a write of `op` on peer K was answered with success and its response is on
\* the wire
WriteAnswered(v, op, K) ==
    /\ pc[v] = "done"
    /\ req[v].op = op
    /\ req[v].key = K
    /\ resp[v].status = WriteDone(op)

\* the peers after the command of an update-allowed-ips of K to the list L
\* has been the last one applied
AfterUpdate(k, K, L) ==
    LET ips == [j \in 1..Len(L) |-> L[j][1]]
    IN IF K \in KernelKeys(k)
       THEN [k EXCEPT ![KernelIndex(k, K)].ips = ips]
       ELSE Append(k, KernelPeer(K, "", ips, 0))

\* the peers after the command of a delete of K has been the last one applied
AfterDelete(k, K) == SelectSeq(k, LAMBDA p : p.pub # K)

\* C29: when a second write on peer K is applied while the response of
\* another caller's write on K is still on the wire, both calls are answered
\* with success (200, or 204 for a delete), K ends with exactly what the write applied last asked for (its list
\* of allowed IPs and nothing of the other write's list, or no peer K after a
\* delete), and every other peer is as it was
C29_LastWriteWins ==
    [][\A v, w \in workers :
          \A K \in {SeedKey} :
              ( /\ v # w
                /\ \E op \in {"update", "delete"} : WriteAnswered(v, op, K)
                /\ Served(w)
                /\ req'[w].op \in {"update", "delete"}
                /\ req'[w].key = K
                /\ resp'[w].status = WriteDone(req'[w].op) ) =>
                  /\ resp'[v] = resp[v]
                  /\ pc'[v] = "done"
                  /\ peers' = IF req'[w].op = "update"
                              THEN AfterUpdate(peers, K, req'[w].ips)
                              ELSE AfterDelete(peers, K)
                  /\ \A i \in 1..Len(peers') :
                         peers'[i].pub # K => \E j \in 1..Len(peers) : peers[j] = peers'[i]
                  /\ \A j \in 1..Len(peers) :
                         peers[j].pub # K => \E i \in 1..Len(peers') : peers'[i] = peers[j]]_vars

\* two updates of the seed peer answered together, the later one's list
\* standing where the earlier one's stood, the other peer still there
C29_Witness ==
    \E v, w \in workers :
        /\ v # w
        /\ WriteAnswered(v, "update", SeedKey)
        /\ WriteAnswered(w, "update", SeedKey)
        /\ req[v].ips = <<IpA, IpB>>
        /\ req[w].ips = <<IpA>>
        /\ Len(peers) = 2
        /\ peers[KernelIndex(peers, SeedKey)].ips = <<"10.100.0.2/32">>
        /\ peers[KernelIndex(peers, SeedKey)].psk = "psk1"
        /\ OtherPeer \in {peers[i] : i \in 1..Len(peers)}

(* ---------------- key generation that fails ---------------- *)
\* among the calls there is a key generation that failed without running out
\* of time
KeyGenerationFailed(calls) ==
    \E i \in 1..Len(calls) :
        /\ calls[i].fn = "generateKeyPair"
        /\ calls[i].err # NoErr
        /\ ~ErrorsIs(calls[i].err, ErrWgTimeout)

\* the messages with which the service reports a failed key generation
KeyGenerationMessages ==
    {"failed to generate key pair for new peer",
     "key pair generation failed during rotation"}

\* C30: when `wg genkey` or `wg pubkey` fails for a reason other than a
\* timeout while a create or a rotate request is served, the service's error
\* is its key-generation failure, the response is 500 without a record, no
\* CreateConfig and no DeleteConfig call is made, and the peers are as they
\* were
C30_KeyGenerationFailureIsInternalError ==
    [][\A w \in workers :
          ( /\ Served(w)
            /\ req'[w].op \in {"create", "rotate"}
            /\ KeyGenerationFailed(log'[w]) ) =>
              /\ ret'[w].err # NoErr
              /\ ret'[w].err[1] \in KeyGenerationMessages
              /\ resp'[w].status = 500
              /\ resp'[w].cfgs = <<>>
              /\ \A i \in 1..Len(log'[w]) :
                     log'[w][i].fn \notin {"CreateConfig", "DeleteConfig"}
              /\ peers' = peers]_vars

\* a rotation of the seed peer whose `wg pubkey` failed
C30_Witness ==
    \E w \in workers :
        /\ Answered(w, "rotate")
        /\ req[w].key = SeedKey
        /\ KeyGenerationFailed(log[w])
        /\ ret[w].err = <<"key pair generation failed during rotation",
                          "wg pubkey command failed">>
        /\ resp[w].status = 500
        /\ Len(peers) = 1

(* ---------------- the outcomes of a rotation ---------------- *)
\* worker w's call of RotatePeerKey returns in this step
RotationReturns(w) ==
    /\ pc[w] # "done"
    /\ pc'[w] = "done"
    /\ req'[w].op = "rotate"
    /\ req'[w].decodes
    /\ req'[w].key # ""

BothLive(k, w) ==
    /\ req[w].key \in KernelKeys(k)
    /\ loc[w].newPub \in KernelKeys(k)
    /\ loc[w].newPub # req[w].key

\* `after` is what w's rotation leaves of `before`, where its new peer is,
\* when it succeeds: the old peer gone, the new one and the rest as they were
AsRotated(w, before, after) ==
    /\ req[w].key \notin KernelKeys(after)
    /\ loc[w].newPub \in KernelKeys(after)
    /\ Len(after) = Len(before) - 1
    /\ \A i \in 1..Len(before) :
           before[i].pub # req[w].key => \E j \in 1..Len(after) : after[j] = before[i]

\* a delete was answered with success
Deleted(r) == r.status = 204

\* C32: a rotation that has created its new peer and goes no further leaves
\* the old and the new peer both on the interface: its CreateConfig leaves
\* the old peer as it is and adds the new one, and a DeleteConfig of its own
\* that fails changes nothing; a Delete of the old key that then succeeds
\* (another caller's while the rotation stands before its DeleteConfig call,
\* or one after the rotation returned its error) leaves the interface as the
\* rotation would have left it had it succeeded
C32_DeleteCompletesStoppedRotation ==
    [][\A w, v \in workers :
          /\ ( /\ pc[w] = "rot_create"
               /\ pc'[w] = "rot_delete"
               /\ req[w].key \in KernelKeys(peers) ) =>
                 /\ BothLive(peers', w)
                 /\ peers'[KernelIndex(peers', req[w].key)]
                        = peers[KernelIndex(peers, req[w].key)]
          /\ ( /\ v # w
               /\ pc[w] = "rot_delete"
               /\ BothLive(peers, w)
               /\ Served(v)
               /\ req'[v].op = "delete"
               /\ req'[v].key = req[w].key
               /\ Deleted(resp'[v]) ) =>
                 AsRotated(w, peers, peers')
          /\ ( /\ pc[w] = "rot_delete"
               /\ BothLive(peers, w)
               /\ pc'[w] = "done"
               /\ ret'[w].err # NoErr ) =>
                 /\ peers' = peers
                 /\ AsRotated(w, peers',
                              After(peers', SvcDelete(req[w].key, "ok"), "ok"))]_vars

\* a rotation standing before its DeleteConfig call while another caller's
\* delete of the old key was answered 200
C32_Witness ==
    \E w, v \in workers :
        /\ v # w
        /\ pc[w] = "rot_delete"
        /\ Answered(v, "delete")
        /\ req[v].key = req[w].key
        /\ Deleted(resp[v])
        /\ window[w] = <<[remove |-> TRUE, peer |-> req[w].key]>>
        /\ req[w].key \notin KernelKeys(peers)
        /\ loc[w].newPub \in KernelKeys(peers)
        /\ loc[w].oldPeer[1].psk # ""

(* ---------------- racing rotations ---------------- *)
\* the peers that carry a key `wg genkey` and `wg pubkey` produced
NewPeers(k) == SelectSeq(k, LAMBDA p : p.pub \in {PubNames[i] : i \in 1..(nextKey - 1)})

\* C33: once two rotations of the same old key, their steps interleaved in
\* any way, have both returned success, exactly one new peer is on the
\* interface, it carries the settings the old peer had, and the old key is
\* gone
C33_ConcurrentRotationsLeaveOnePeer ==
    \A v, w \in workers :
        ( /\ v # w
          /\ Answered(v, "rotate") /\ resp[v].status = 200
          /\ Answered(w, "rotate") /\ resp[w].status = 200
          /\ req[v].key = req[w].key ) =>
            /\ req[w].key \notin KernelKeys(peers)
            /\ Len(NewPeers(peers)) = 1
            /\ KernelSettings(NewPeers(peers)[1]) = KernelSettings(loc[w].oldPeer[1])

(* ---------------- what an update may add ---------------- *)
\* the public keys on the interface k
KeySet(k) == {k[i].pub : i \in 1..Len(k)}

\* C34: an update-allowed-ips request adds no peer: the public keys on the
\* interface are the same after it as before it, also when its key was
\* deleted or rotated away while or before it was served
C34_UpdateAddsNoPeer ==
    [][\A w \in workers :
          (Served(w) /\ req'[w].op = "update") => KeySet(peers') = KeySet(peers)]_vars

(* ---------------- the list and the requests that succeeded ---------------- *)
\* the public keys GET /configs returns for the interface k
ListedKeys(k) ==
    LET cfgs == SvcGetAll(k, "ok").cfgs
    IN {cfgs[i].publicKey : i \in 1..Len(cfgs)}

\* the interface holds nothing but peers that a create or a rotation put
\* there, as it does when it was empty at the start
OnlyIssued(k, n) == KeySet(k) \subseteq {PubNames[i] : i \in 1..(n - 1)}

\* C35: starting from an empty interface and with one request at a time,
\* GET /configs follows the requests that succeed: a create adds the key it
\* returns, an update-allowed-ips changes no key, a delete takes its key away
\* (so that create then delete of a key gives the list from before), and a
\* rotation adds its new key and takes the old one away; the list therefore
\* holds exactly the peers created or produced by a rotation and not deleted
\* or rotated away since
C35_ListFollowsSuccessfulRequests ==
    [][\A w \in workers :
          LET before == ListedKeys(peers)
              after == ListedKeys(peers')
          IN OnlyIssued(peers, nextKey) =>
              /\ (Served(w) /\ req'[w].op = "create" /\ resp'[w].status = 201) =>
                     /\ resp'[w].cfgs[1].publicKey \notin before
                     /\ after = before \cup {resp'[w].cfgs[1].publicKey}
              /\ (Served(w) /\ req'[w].op = "update" /\ resp'[w].status = 200) =>
                     after = before
              /\ (Served(w) /\ req'[w].op = "delete" /\ resp'[w].status = 204) =>
                     after = before \ {req'[w].key}
              /\ (pc[w] = "rot_create" /\ pc'[w] = "rot_delete") =>
                     after = before \cup {loc[w].newPub}
              /\ (pc[w] = "rot_delete" /\ pc'[w] = "done" /\ resp'[w].status = 200) =>
                     after = before \ {req[w].key}
              /\ OnlyIssued(peers', nextKey')]_vars

(* ---------------- a create whose `wg set` fails ---------------- *)
\* among the calls there is a CreateConfig that came back with an error
CreateConfigFailed(calls) ==
    \E i \in 1..Len(calls) : calls[i].fn = "CreateConfig" /\ calls[i].err # NoErr

\* C36: when CreateConfig fails while a create request is served,
\* CreateWithNewKeys returns an error and no record, the response carries no
\* record and names the generated private key nowhere, and the peers are as
\* they were
C36_FailedCreateReturnsNoRecord ==
    [][\A w \in workers :
          (Served(w) /\ req'[w].op = "create" /\ CreateConfigFailed(log'[w])) =>
              /\ ret'[w].err # NoErr
              /\ ret'[w].err[1] = "failed to add new peer to WireGuard"
              /\ ret'[w].cfg = <<>>
              /\ resp'[w].status \in {500, 503}
              /\ resp'[w].cfgs = <<>>
              /\ \A k \in {PrivNames[i] : i \in 1..(nextKey' - 1)} : ~Mentions(resp'[w], k)
              /\ peers' = peers]_vars

\* a create with a preshared key whose `wg set` exited with an error, the
\* seed peer alone on the interface as before
C36_Witness ==
    \E w \in workers :
        /\ Answered(w, "create")
        /\ req[w].psk # ""
        /\ CreateConfigFailed(log[w])
        /\ ~ErrorsIs(ret[w].err, ErrWgTimeout)
        /\ resp[w].status = 500
        /\ nextKey = 2
        /\ KeySet(peers) = {SeedKey}

(* ---------------- CreateConfig with no allowed IPs ---------------- *)
\* the CreateConfig calls of w's request that ran `wg set` for a record
\* with an empty list of allowed IPs
EmptyIpsCreates(w) ==
    SelectSeq(log[w], LAMBDA c : /\ c.fn = "CreateConfig"
                                 /\ c.args # <<>>
                                 /\ c.cfg[1].allowedIps = <<>>)

\* C37: every CreateConfig for a record with no allowed IPs passes the
\* allowed-ips argument with the empty string, with and without a preshared
\* key, and after a successful one the peer has no allowed IPs
C37_EmptyAllowedIpsAlwaysExplicit ==
    \A w \in workers :
        \A i \in 1..Len(EmptyIpsCreates(w)) :
            LET c == EmptyIpsCreates(w)[i]
            IN /\ c.args[1].allowedIps = << <<>> >>
               /\ (c.err = NoErr /\ c.key \in KernelKeys(peers)) =>
                      peers[KernelIndex(peers, c.key)].ips = <<>>

(* ---------------- deadlines ---------------- *)
\* how many of a request's subprocesses are repository calls, how many key
\* generations it has
RepositoryCalls(op) ==
    Len(SelectSeq(Invocations(op), LAMBDA prog : prog \notin KeyGenPrograms))

KeyGenerations(op) ==
    Len(SelectSeq(Invocations(op), LAMBDA prog : prog = "genkey"))

\* C38: every subprocess runs under a deadline above zero, no request is
\* left waiting for the utility, a request takes no longer than its
\* repository calls times the command timeout plus its key generations
\* times the key generation timeout, and genkey and pubkey together take no
\* longer than one key generation timeout
C38_EveryInvocationHasADeadline ==
    /\ timing.at # "blocked"
    /\ \A i \in 1..Len(timing.deadlines) :
           timing.deadlines[i] # <<>> /\ timing.deadlines[i][1] > 0
    /\ timing.at \in {"busy", "done"} =>
           /\ Len(timing.deadlines) <= Len(Invocations(timing.op))
           /\ timing.keyGenSpent <= timing.clientKeyGenTimeout
           /\ timing.repo[1].cmdTimeout # <<>> =>
                  timing.elapsed <=
                      RepositoryCalls(timing.op) * timing.repo[1].cmdTimeout[1]
                      + KeyGenerations(timing.op) * timing.clientKeyGenTimeout

(* ---------------- the fake and the gateway ---------------- *)
\* a public key no peer has
MissingKey == "pubZ"

\* two results of one repository call look the same from outside: both
\* succeed, or both fail and the HTTP surface answers the same status
SameResult(a, b) ==
    /\ (a = NoErr) = (b = NoErr)
    /\ handleError("", a).status = handleError("", b).status

\* C39: on the same peers FakeWGRepository and WGRepository answer every
\* operation alike and leave the same peers: GetConfig gives the same
\* record or an error matching ErrPeerNotFound (404) for a missing key,
\* ListConfigs the same records, DeleteConfig succeeds also for a missing
\* key, UpdateAllowedIPs and CreateConfig give the same result and peers
C39_FakeIsEquivalentToGateway ==
    LET data == FakeData(peers)
        listed == ListConfigs(peers, "ok").cfgs
    IN /\ FakeListConfigs(data).cfgs = {listed[i] : i \in 1..Len(listed)}
       /\ \A ips \in IpLists, psk \in PskInputs, ka \in KeepaliveInputs :
              LET cfg == CreateRepoCfg(MissingKey, "", ips, psk, ka)
                  new == CreateConfig(cfg, "ok")
                  fakeNew == FakeCreateConfig(data, cfg)
              IN /\ SameResult(fakeNew.err, new.err)
                 /\ fakeNew.data = FakeData(After(peers, new, "ok"))
       /\ \A key \in KernelKeys(peers) \cup {MissingKey} :
              LET get == GetConfig(peers, key, "ok")
                  fakeGet == FakeGetConfig(data, key)
                  del == DeleteConfig(key, "ok")
                  fakeDel == FakeDeleteConfig(data, key)
              IN /\ SameResult(fakeGet.err, get.err)
                 /\ fakeGet.cfg = get.cfg
                 /\ key \notin KernelKeys(peers) =>
                        /\ ErrorsIs(fakeGet.err, ErrPeerNotFound)
                        /\ handleError(key, fakeGet.err).status = 404
                 /\ fakeDel.err = NoErr /\ del.err = NoErr
                 /\ fakeDel.data = FakeData(After(peers, del, "ok"))
                 /\ \A ips \in IpLists :
                        LET upd == UpdateAllowedIPs(key, ips, "ok")
                            fakeUpd == FakeUpdateAllowedIPs(data, key, ips)
                        IN /\ SameResult(fakeUpd.err, upd.err)
                           /\ fakeUpd.data = FakeData(After(peers, upd, "ok"))
====
